---- MODULE Spec2Model ----
(***************************************************************************)
(* Model of the AquaEngineering/os runtime in parts, each with its own     *)
(* specification over one set of variables:                                *)
(*   Spec       the TLSF allocator (src/OS/os_mem.h, second half), working *)
(*              on the static work memory that os_mem_init reserves        *)
(*              (src/OS/os_mem.c);                                         *)
(*   SpecAlign  the same allocator asked for aligned buffers;              *)
(*   SpecSearch the same allocator asked for sizes of every first level;   *)
(*   SpecPool   the same allocator given a pool by os_tlsf_add_pool;       *)
(*   SpecMem    the allocator used through os_mem_alloc, os_mem_free,      *)
(*              os_mem_realloc and os_mem_test (src/OS/os_mem.c);          *)
(*   SpecBuf    the temporary buffers of src/OS/os_mem.c;                  *)
(*   SpecBorrow the same, never freed by os_mem_buf_free_all;              *)
(*   SpecTick   the system tick (src/OS/os_hal_tick.c);                    *)
(*   SpecTimer  the software timers (src/OS/os_ll.h, second half);         *)
(*   SpecReady  one timer made ready by os_timer_ready;                    *)
(*   SpecExpiry timers whose repeat count runs out.                        *)
(* A specification holds the variables of the other parts fixed.           *)
(*                                                                         *)
(* The allocator keeps all of its state inside the work memory itself (the *)
(* control structure at its start, the block headers inside the pool), so  *)
(* the model keeps the work memory word by word and every function of the  *)
(* source is an operator that reads and writes those words.                *)
(*                                                                         *)
(* Target: 32-bit (size_t and pointers are 4 bytes).  With 8-byte pointers *)
(* sizeof(control_t) exceeds OS_MEM_SIZE = 1024 and no pool can be made.   *)
(* A 32-bit word is kept as the integer of its two's complement reading    *)
(* (0xFFFFFFFF is -1), because TLC's integers are 32 bits wide; Add32,     *)
(* Sub32, ULt and Shr give the unsigned arithmetic of the C code on it.    *)
(***************************************************************************)
EXTENDS Integers, FiniteSets, Sequences, TLC

VARIABLES mem, wild, live, last, fills, calls,
          cur_used, max_used, zero_mem, os_mem_buf,
          sys_time, tick_irq_flag, tk,
          tnode, talloc, os_timer_ll, timer_deleted, timer_created,
          already_running, os_timer_run, obs

memVars == <<cur_used, max_used, zero_mem, os_mem_buf>>

heapVars == <<mem, wild, live, last, fills, calls, memVars>>

tickVars == <<sys_time, tick_irq_flag, tk>>

timerVars == <<tnode, talloc, os_timer_ll, timer_deleted, timer_created,
               already_running, os_timer_run, obs>>

vars == <<heapVars, tickVars, timerVars>>

----------------------------------------------------------------------------
(* 32-bit unsigned arithmetic on the two's complement reading.             *)

MaxInt == 2147483647
MinInt == -2147483647 - 1
Half == 1073741824

Pow2(k) == 2 ^ k

Add32(a, b) ==
    IF a >= 0 /\ b >= 0
    THEN (IF a > MaxInt - b THEN ((a - Half) - Half) + ((b - Half) - Half) ELSE a + b)
    ELSE IF a < 0 /\ b < 0
         THEN (IF a < MinInt - b THEN ((a + Half) + Half) + ((b + Half) + Half) ELSE a + b)
         ELSE a + b

Neg32(a) == IF a = MinInt THEN MinInt ELSE 0 - a

Sub32(a, b) == Add32(a, Neg32(b))

\* a < b as unsigned values
ULt(a, b) == IF (a >= 0) = (b >= 0) THEN a < b ELSE a >= 0

ULe(a, b) == a = b \/ ULt(a, b)

UMax(a, b) == IF ULt(b, a) THEN a ELSE b

UMin(a, b) == IF ULt(a, b) THEN a ELSE b

\* k * x as a 32-bit product, for a small factor k >= 0
RECURSIVE Mul32(_, _)
Mul32(k, x) ==
    IF k = 0 THEN 0
    ELSE Add32(Add32(Mul32(k \div 2, x), Mul32(k \div 2, x)),
               IF k % 2 = 1 THEN x ELSE 0)

\* a / b as unsigned values, b # 0
RECURSIVE UDiv(_, _)
UDiv(a, b) ==
    IF b < 0 \/ b >= Half THEN (IF ULt(a, b) THEN 0 ELSE 1 + UDiv(Sub32(a, b), b))
    ELSE IF a >= 0 THEN a \div b
    ELSE LET h == (a \div 2) + Half + Half
         IN  Add32(Add32(h \div b, h \div b), (2 * (h % b) + (a % 2)) \div b)

\* x >> k, logical, 0 <= k <= 31
Shr(x, k) ==
    IF k = 31 THEN (IF x < 0 THEN 1 ELSE 0)
    ELSE IF x >= 0 \/ k = 0 THEN x \div Pow2(k)
    ELSE (x \div Pow2(k)) + Pow2(31 - k) + Pow2(31 - k)

\* bit k of x, 0 <= k <= 31
Bit(x, k) == Shr(x, k) % 2

\* the word with only bit k set
BitWord(k) == IF k = 31 THEN MinInt ELSE Pow2(k)

SetBit(x, k) == IF Bit(x, k) = 1 THEN x ELSE x + BitWord(k)

ClrBit(x, k) == IF Bit(x, k) = 1 THEN x - BitWord(k) ELSE x

\* x & (~0U << k), 0 <= k <= 31
MaskFrom(x, k) == IF k = 31 THEN (IF x < 0 THEN MinInt ELSE 0) ELSE x - (x % Pow2(k))

\* x & ~(m - 1) and x & (m - 1) for a power of two m < 2^31
AndNotLow(x, m) == x - (x % m)

AndLow(x, m) == x % m

\* a | b for the two flag bits
Or2(a, b) ==
    (IF a % 2 = 1 \/ b % 2 = 1 THEN 1 ELSE 0)
    + (IF (a \div 2) % 2 = 1 \/ (b \div 2) % 2 = 1 THEN 2 ELSE 0)

\* __builtin_ffs(word) - 1
tlsf_ffs(word) ==
    IF word = 0 THEN -1
    ELSE IF word = MinInt THEN 31
    ELSE CHOOSE k \in 0..30 : word % Pow2(k) = 0 /\ (word \div Pow2(k)) % 2 = 1

\* word ? 32 - __builtin_clz(word) - 1 : -1
tlsf_fls(word) ==
    IF word = 0 THEN -1
    ELSE IF word < 0 THEN 31
    ELSE CHOOSE k \in 0..30 : Pow2(k) <= word /\ (k = 30 \/ word < Pow2(k + 1))

----------------------------------------------------------------------------
(* Configuration and layout constants.                                     *)

OS_MEM_SIZE == 1024

SL_INDEX_COUNT_LOG2 == 5

ALIGN_SIZE_LOG2 == 2

ALIGN_SIZE == Pow2(ALIGN_SIZE_LOG2)

\* TLSF_LOG2_CEIL(n): round up value of log2(n)
TLSF_LOG2_CEIL(n) == IF Pow2(tlsf_fls(n)) = n THEN tlsf_fls(n) ELSE tlsf_fls(n) + 1

FL_INDEX_MAX == TLSF_LOG2_CEIL(OS_MEM_SIZE)

SL_INDEX_COUNT == Pow2(SL_INDEX_COUNT_LOG2)

FL_INDEX_SHIFT == SL_INDEX_COUNT_LOG2 + ALIGN_SIZE_LOG2

FL_INDEX_COUNT == FL_INDEX_MAX - FL_INDEX_SHIFT + 1

SMALL_BLOCK_SIZE == Pow2(FL_INDEX_SHIFT)

\* sizeof(size_t) and sizeof(void *) of the 32-bit target
WordSize == 4

\* block_header_t: prev_phys_block, size, next_free, prev_free
OffPrevPhys == 0
OffSize == OffPrevPhys + WordSize
OffNextFree == OffSize + WordSize
OffPrevFree == OffNextFree + WordSize
SizeofBlockHeader == OffPrevFree + WordSize

block_header_overhead == WordSize

block_start_offset == OffSize + WordSize

block_size_min == SizeofBlockHeader - WordSize

block_size_max == Pow2(FL_INDEX_MAX)

\* control_t: block_null, fl_bitmap, sl_bitmap[FL_INDEX_COUNT],
\* blocks[FL_INDEX_COUNT][SL_INDEX_COUNT]
OffFlBitmap == SizeofBlockHeader
OffSlBitmap == OffFlBitmap + WordSize
OffBlocks == OffSlBitmap + FL_INDEX_COUNT * WordSize
SizeofControl == OffBlocks + FL_INDEX_COUNT * SL_INDEX_COUNT * WordSize

\* address the build gives to work_mem_int (a 4-aligned RAM address)
WorkMemBase == 536870912

NULL == 0

SIZE_MAX == -1

----------------------------------------------------------------------------
(* The work memory.  A machine state s is [mem, wild]: mem the words of    *)
(* work_mem_int, wild set by the first access that is not an aligned word  *)
(* of work_mem_int or that indexes sl_bitmap / blocks outside their bounds *)
(* (undefined behaviour: the model follows the program no further).        *)

WordCount == OS_MEM_SIZE \div WordSize

InMem(a) ==
    /\ a >= WorkMemBase
    /\ a < WorkMemBase + OS_MEM_SIZE
    /\ a % WordSize = 0

Idx(a) == (a - WorkMemBase) \div WordSize

Rd(s, a) == IF InMem(a) THEN s.mem[Idx(a)] ELSE 0

Oob(s) == IF s.wild THEN s ELSE [s EXCEPT !.wild = TRUE]

\* a read of the word at a
Touch(s, a) == IF InMem(a) THEN s ELSE Oob(s)

Wr(s, a, v) ==
    IF s.wild THEN s
    ELSE IF InMem(a) THEN [s EXCEPT !.mem[Idx(a)] = v]
    ELSE Oob(s)

\* the access is undefined unless ok
OobUnless(ok, s) == IF ok THEN s ELSE Oob(s)

\* word |= 1U << k and word &= ~(1U << k), on the word at a
SetBits(s, a, k) == Wr(s, a, SetBit(Rd(s, a), k))

ClrBits(s, a, k) == Wr(s, a, ClrBit(Rd(s, a), k))

control == WorkMemBase

block_null == control

IdxOK(fl, sl) == fl \in 0..(FL_INDEX_COUNT - 1) /\ sl \in 0..(SL_INDEX_COUNT - 1)

SlAddr(fl) == control + OffSlBitmap + fl * WordSize

BlkAddr(fl, sl) == control + OffBlocks + (fl * SL_INDEX_COUNT + sl) * WordSize

----------------------------------------------------------------------------
(* block_header_t member functions (os_mem.h).  b is a block_header_t *.   *)

SizeAddr(b) == Add32(b, OffSize)

block_size(s, b) == AndNotLow(Rd(s, SizeAddr(b)), 4)

block_set_size(s, b, size) ==
    Wr(s, SizeAddr(b), AndNotLow(size, 4) + Or2(AndLow(size, 4), AndLow(Rd(s, SizeAddr(b)), 4)))

block_is_last(s, b) == block_size(s, b) = 0

block_is_free(s, b) == Bit(Rd(s, SizeAddr(b)), 0) = 1

block_set_free(s, b) == Wr(s, SizeAddr(b), SetBit(Rd(s, SizeAddr(b)), 0))

block_set_used(s, b) == Wr(s, SizeAddr(b), ClrBit(Rd(s, SizeAddr(b)), 0))

block_is_prev_free(s, b) == Bit(Rd(s, SizeAddr(b)), 1) = 1

block_set_prev_free(s, b) == Wr(s, SizeAddr(b), SetBit(Rd(s, SizeAddr(b)), 1))

block_set_prev_used(s, b) == Wr(s, SizeAddr(b), ClrBit(Rd(s, SizeAddr(b)), 1))

block_from_ptr(ptr) == Sub32(ptr, block_start_offset)

block_to_ptr(b) == Add32(b, block_start_offset)

offset_to_block(ptr, size) == Add32(ptr, size)

block_prev(s, b) == Rd(s, Add32(b, OffPrevPhys))

block_next(s, b) ==
    offset_to_block(block_to_ptr(b), Sub32(block_size(s, b), block_header_overhead))

\* next->prev_phys_block = block; the neighbour is block_next(s, b)
block_link_next(s, b) ==
    Wr(Touch(s, SizeAddr(b)), Add32(block_next(s, b), OffPrevPhys), b)

block_mark_as_free(s, b) ==
    LET next == block_next(s, b)
        s1 == block_link_next(s, b)
        s2 == block_set_prev_free(s1, next)
    IN  block_set_free(s2, b)

block_mark_as_used(s, b) ==
    LET next == block_next(s, b)
        s1 == block_set_prev_used(Touch(s, SizeAddr(b)), next)
    IN  block_set_used(s1, b)

align_up(x, align) == AndNotLow(Add32(x, align - 1), align)

align_down(x, align) == Sub32(x, AndLow(x, align))

\* faulty variant of align_ptr: rounds to ALIGN_SIZE, not to align
align_ptr_word(ptr, align) == AndNotLow(Add32(ptr, ALIGN_SIZE - 1), ALIGN_SIZE)

align_ptr(ptr, align) == AndNotLow(Add32(ptr, align - 1), align)

adjust_request_size(size, align) ==
    IF size # 0
    THEN LET aligned == align_up(size, align)
         IN  IF ULt(aligned, block_size_max) THEN UMax(aligned, block_size_min) ELSE 0
    ELSE 0

----------------------------------------------------------------------------
(* TLSF utility functions.                                                 *)

\* <<fl, sl>>
mapping_insert(size) ==
    IF ULt(size, SMALL_BLOCK_SIZE)
    THEN <<0, size \div (SMALL_BLOCK_SIZE \div SL_INDEX_COUNT)>>
    ELSE LET fl == tlsf_fls(size)
             sl == Shr(size, fl - SL_INDEX_COUNT_LOG2) - Pow2(SL_INDEX_COUNT_LOG2)
         IN  <<fl - (FL_INDEX_SHIFT - 1), sl>>

mapping_search(size) ==
    IF ~ULt(size, SMALL_BLOCK_SIZE)
    THEN mapping_insert(Add32(size, Pow2(tlsf_fls(size) - SL_INDEX_COUNT_LOG2) - 1))
    ELSE mapping_insert(size)

\* faulty variant of search_suitable_block: gives up when the second-level
\* bitmap of fl0 has nothing at or above sl0
search_suitable_block_level(s, fl0, sl0) ==
    LET sl_map0 == MaskFrom(Rd(s, SlAddr(fl0)), sl0)
        sl == tlsf_ffs(sl_map0)
    IN  IF ~IdxOK(fl0, sl0) THEN [s |-> Oob(s), block |-> NULL, fl |-> fl0, sl |-> sl0]
        ELSE IF sl_map0 = 0 THEN [s |-> s, block |-> NULL, fl |-> fl0, sl |-> sl0]
        ELSE [s |-> s, block |-> Rd(s, BlkAddr(fl0, sl)), fl |-> fl0, sl |-> sl]

\* [s, block, fl, sl]; block = NULL when no list at or above (fl, sl) is non-empty
search_suitable_block(s, fl0, sl0) ==
    LET sl_map0 == MaskFrom(Rd(s, SlAddr(fl0)), sl0)
        fl_map == MaskFrom(Rd(s, control + OffFlBitmap), fl0 + 1)
        fl == IF sl_map0 = 0 THEN tlsf_ffs(fl_map) ELSE fl0
        sl_map == IF sl_map0 = 0 THEN Rd(s, SlAddr(fl)) ELSE sl_map0
        sl == tlsf_ffs(sl_map)
    IN  IF ~IdxOK(fl0, sl0) THEN [s |-> Oob(s), block |-> NULL, fl |-> fl0, sl |-> sl0]
        ELSE IF sl_map0 = 0 /\ fl_map = 0 THEN [s |-> s, block |-> NULL, fl |-> fl0, sl |-> sl0]
        ELSE IF ~IdxOK(fl, sl) THEN [s |-> Oob(s), block |-> NULL, fl |-> fl, sl |-> sl]
        ELSE [s |-> s, block |-> Rd(s, BlkAddr(fl, sl)), fl |-> fl, sl |-> sl]

\* if (!control->sl_bitmap[fl]) control->fl_bitmap &= ~(1U << fl)
remove_free_fl(s, fl) ==
    IF Rd(s, SlAddr(fl)) # 0 THEN s ELSE ClrBits(s, control + OffFlBitmap, fl)

\* if (control->blocks[fl][sl] == block): the new head, and the bitmaps when
\* the new head is the null block
remove_free_head(s, block, next, fl, sl) ==
    IF s.wild \/ Rd(s, BlkAddr(fl, sl)) # block THEN s
    ELSE IF next # block_null THEN Wr(s, BlkAddr(fl, sl), next)
    ELSE remove_free_fl(ClrBits(Wr(s, BlkAddr(fl, sl), next), SlAddr(fl), sl), fl)

remove_free_block(s, block, fl, sl) ==
    LET prev == Rd(s, Add32(block, OffPrevFree))
        next == Rd(s, Add32(block, OffNextFree))
        s0 == Touch(Touch(s, Add32(block, OffPrevFree)), Add32(block, OffNextFree))
        s1 == Wr(s0, Add32(next, OffPrevFree), prev)
        s2 == Wr(s1, Add32(prev, OffNextFree), next)
    IN  remove_free_head(OobUnless(IdxOK(fl, sl), s2), block, next, fl, sl)

\* faulty variant of insert_free_block: the sl_bitmap bit is not set
insert_free_block_no_sl(s, block, fl, sl) ==
    LET current == Rd(s, BlkAddr(fl, sl))
        s1 == Wr(s, Add32(block, OffNextFree), current)
        s2 == Wr(s1, Add32(block, OffPrevFree), block_null)
        s3 == Wr(s2, Add32(current, OffPrevFree), block)
        s4 == Wr(s3, BlkAddr(fl, sl), block)
    IN  IF ~IdxOK(fl, sl) THEN Oob(s)
        ELSE SetBits(s4, control + OffFlBitmap, fl)

insert_free_block(s, block, fl, sl) ==
    LET current == Rd(s, BlkAddr(fl, sl))
        s1 == Wr(s, Add32(block, OffNextFree), current)
        s2 == Wr(s1, Add32(block, OffPrevFree), block_null)
        s3 == Wr(s2, Add32(current, OffPrevFree), block)
        s4 == Wr(s3, BlkAddr(fl, sl), block)
    IN  IF ~IdxOK(fl, sl) THEN Oob(s)
        ELSE SetBits(SetBits(s4, control + OffFlBitmap, fl), SlAddr(fl), sl)

block_remove(s, block) ==
    LET m == mapping_insert(block_size(s, block))
    IN  remove_free_block(Touch(s, SizeAddr(block)), block, m[1], m[2])

block_insert(s, block) ==
    LET m == mapping_insert(block_size(s, block))
    IN  insert_free_block(Touch(s, SizeAddr(block)), block, m[1], m[2])

block_can_split(s, block, size) ==
    ~ULt(block_size(s, block), Add32(SizeofBlockHeader, size))

\* the trailing block; its size word is whatever the memory holds there
SplitRemaining(block, size) ==
    offset_to_block(block_to_ptr(block), Sub32(size, block_header_overhead))

block_split(s, block, size) ==
    LET remaining == SplitRemaining(block, size)
        s1 == block_set_size(s, block, size)
    IN  block_mark_as_free(s1, remaining)

block_absorb(s, prev, block) ==
    LET s1 == Wr(Touch(s, SizeAddr(block)), SizeAddr(prev),
                 Add32(Rd(s, SizeAddr(prev)), Add32(block_size(s, block), block_header_overhead)))
    IN  block_link_next(s1, prev)

\* [s, block]
block_merge_prev(s, block) ==
    IF block_is_prev_free(s, block)
    THEN LET prev == block_prev(s, block)
             s0 == Touch(Touch(s, SizeAddr(block)), Add32(block, OffPrevPhys))
             s1 == block_remove(s0, prev)
         IN  [s |-> block_absorb(s1, prev, block), block |-> prev]
    ELSE [s |-> Touch(s, SizeAddr(block)), block |-> block]

\* [s, block]
block_merge_next(s, block) ==
    LET next == block_next(s, block)
        s0 == Touch(Touch(s, SizeAddr(block)), SizeAddr(next))
    IN  IF block_is_free(s, next)
        THEN [s |-> block_absorb(block_remove(s0, next), block, next), block |-> block]
        ELSE [s |-> s0, block |-> block]

block_trim_free(s, block, size) ==
    IF block_can_split(s, block, size)
    THEN LET remaining_block == SplitRemaining(block, size)
             s1 == block_split(s, block, size)
             s2 == block_link_next(s1, block)
             s3 == block_set_prev_free(s2, remaining_block)
         IN  block_insert(s3, remaining_block)
    ELSE Touch(s, SizeAddr(block))

\* block_insert and block_merge_next applied to the pair [s, block] that a
\* merge has returned
insert_merged(m) == block_insert(m.s, m.block)

merge_next_of(m) == block_merge_next(m.s, m.block)

block_trim_used(s, block, size) ==
    IF block_can_split(s, block, size)
    THEN LET remaining_block == SplitRemaining(block, size)
             s1 == block_split(s, block, size)
             s2 == block_set_prev_used(s1, remaining_block)
         IN  insert_merged(block_merge_next(s2, remaining_block))
    ELSE Touch(s, SizeAddr(block))

\* [s, block]
block_trim_free_leading(s, block, size) ==
    IF block_can_split(s, block, size)
    THEN LET remaining_block == SplitRemaining(block, Sub32(size, block_header_overhead))
             s1 == block_split(s, block, Sub32(size, block_header_overhead))
             s2 == block_set_prev_free(s1, remaining_block)
             s3 == block_link_next(s2, block)
         IN  [s |-> block_insert(s3, block), block |-> remaining_block]
    ELSE [s |-> Touch(s, SizeAddr(block)), block |-> block]

\* the block search_suitable_block has found is taken off its list
locate_found(r) ==
    IF r.block = NULL THEN [s |-> r.s, block |-> NULL]
    ELSE [s |-> remove_free_block(r.s, r.block, r.fl, r.sl), block |-> r.block]

\* [s, block]
block_locate_free(s, size) ==
    LET m == mapping_search(size)
    IN  IF size = 0 \/ m[1] >= FL_INDEX_COUNT THEN [s |-> s, block |-> NULL]
        ELSE locate_found(search_suitable_block(s, m[1], m[2]))

\* [s, p]
block_prepare_used(s, block, size) ==
    IF block # NULL
    THEN [s |-> block_mark_as_used(block_trim_free(s, block, size), block),
          p |-> block_to_ptr(block)]
    ELSE [s |-> s, p |-> NULL]

\* block_prepare_used applied to the pair [s, block] of a located block
prepare_located(r, size) == block_prepare_used(r.s, r.block, size)

\* control_constructor: block_null's list pointers and every list head
\* point at block_null, the bitmaps are cleared
control_constructor(s) ==
    [s EXCEPT !.mem =
        [i \in DOMAIN s.mem |->
            IF i = Idx(block_null + OffNextFree) \/ i = Idx(block_null + OffPrevFree)
            THEN block_null
            ELSE IF i >= Idx(control + OffFlBitmap) /\ i < Idx(control + OffBlocks) THEN 0
            ELSE IF i >= Idx(control + OffBlocks) /\ i < Idx(control + SizeofControl)
            THEN block_null
            ELSE s.mem[i]]]

os_tlsf_size == SizeofControl

os_tlsf_pool_overhead == 2 * block_header_overhead

\* the pool that os_tlsf_create_with_pool adds: mem + os_tlsf_size()
PoolMem == Add32(WorkMemBase, os_tlsf_size)

PoolBytesArg == Sub32(OS_MEM_SIZE, os_tlsf_size)

\* pool_bytes of os_tlsf_add_pool
pool_bytes == align_down(Sub32(PoolBytesArg, os_tlsf_pool_overhead), ALIGN_SIZE)

\* the first block of the pool
FirstBlock == offset_to_block(PoolMem, Neg32(block_header_overhead))

\* the zero-size sentinel block after the main block
pool_sentinel(s, block) ==
    LET next == block_next(s, block)
    IN  block_set_prev_free(
            block_set_used(block_set_size(block_link_next(s, block), next, 0), next), next)

os_tlsf_add_pool(s) ==
    IF PoolMem % ALIGN_SIZE # 0 THEN s
    ELSE IF ULt(pool_bytes, block_size_min) \/ ULt(block_size_max, pool_bytes) THEN s
    ELSE LET block == FirstBlock
             s1 == block_set_size(s, block, pool_bytes)
             s2 == block_set_free(s1, block)
             s3 == block_set_prev_used(s2, block)
         IN  pool_sentinel(block_insert(s3, block), block)

os_tlsf_create_with_pool(s) == os_tlsf_add_pool(control_constructor(s))

\* os_mem_init: work_mem_int is a static array, all zero at start
os_mem_init ==
    os_tlsf_create_with_pool([mem |-> [i \in 0..(WordCount - 1) |-> 0], wild |-> FALSE])

----------------------------------------------------------------------------
(* os_memcpy (os_mem.c) for 4-aligned dst and src, as os_tlsf_realloc      *)
(* calls it: 32-bit copies while len > 4, then the last 1..4 bytes one by  *)
(* one (little-endian byte order inside a word).  The loops are given by   *)
(* their result: word i of the destination, for every word copied.         *)

CopyBytes(dstw, srcw, k) ==
    IF k >= WordSize THEN srcw
    ELSE (srcw % Pow2(8 * k)) + (dstw - (dstw % Pow2(8 * k)))

\* number of words the copy touches: ceil(len / 4)
CopyWords(len) == Shr(len, 2) + (IF len % WordSize = 0 THEN 0 ELSE 1)

\* bytes copied into word i of the destination
CopyLen(len, i) == IF i + 1 < CopyWords(len) \/ len % WordSize = 0 THEN WordSize ELSE len % WordSize

\* the copy runs forward: when dst lies d > 0 words after src inside the
\* source range, word i reads what the copy itself stored i - d words ago
CopySrc(s, dst, src, i) ==
    LET d == Sub32(dst, src) \div WordSize
    IN  IF d > 0 THEN Rd(s, Add32(src, (i % d) * WordSize)) ELSE Rd(s, Add32(src, i * WordSize))

os_memcpy(s, dst, src, len) ==
    LET n == CopyWords(len)
        lim == IF n < WordCount THEN n ELSE WordCount + 1
        Bad(i) == ~InMem(Add32(src, i * WordSize)) \/ ~InMem(Add32(dst, i * WordSize))
        \* words copied before the first access outside the work memory
        done == CHOOSE i \in 0..lim : (i = lim \/ Bad(i)) /\ \A j \in 0..(i - 1) : ~Bad(j)
        copied ==
            [s EXCEPT !.mem =
                [j \in DOMAIN s.mem |->
                    IF j >= Idx(dst) /\ j < Idx(dst) + done
                    THEN CopyBytes(s.mem[j], CopySrc(s, dst, src, j - Idx(dst)),
                                   CopyLen(len, j - Idx(dst)))
                    ELSE s.mem[j]]]
    IN  IF s.wild \/ len = 0 THEN s
        ELSE IF done = 0 THEN Oob(s)
        ELSE IF done < n THEN Oob(copied)
        ELSE copied

----------------------------------------------------------------------------
(* The allocator's public functions.  Each gives [s, p]: the machine state *)
(* after the call and the value returned.                                  *)

os_tlsf_malloc(s, size) ==
    LET adjust == adjust_request_size(size, ALIGN_SIZE)
    IN  prepare_located(block_locate_free(s, adjust), adjust)

\* aligned - ptr: the gap before the aligned address in the block found, at
\* least gap_minimum when there is one
memalign_gap(ptr, align) ==
    LET gap_minimum == SizeofBlockHeader
        aligned0 == align_ptr(ptr, align)
        gap0 == Sub32(aligned0, ptr)
        offset == UMax(Sub32(gap_minimum, gap0), align)
        aligned == IF gap0 # 0 /\ ULt(gap0, gap_minimum)
                   THEN align_ptr(Add32(aligned0, offset), align)
                   ELSE aligned0
    IN  Sub32(aligned, ptr)

\* if (block) { ...; if (gap) block = block_trim_free_leading(...) }
memalign_trim(r, align) ==
    IF r.block # NULL /\ memalign_gap(block_to_ptr(r.block), align) # 0
    THEN block_trim_free_leading(r.s, r.block, memalign_gap(block_to_ptr(r.block), align))
    ELSE [s |-> r.s, block |-> r.block]

\* faulty variant of os_tlsf_memalign: asks block_locate_free for the
\* adjusted size alone, without the alignment and the gap
os_tlsf_memalign_bare(s, align, size) ==
    LET adjust == adjust_request_size(size, ALIGN_SIZE)
    IN  prepare_located(memalign_trim(block_locate_free(s, adjust), align), adjust)

os_tlsf_memalign(s, align, size) ==
    LET adjust == adjust_request_size(size, ALIGN_SIZE)
        gap_minimum == SizeofBlockHeader
        size_with_gap == adjust_request_size(Add32(Add32(adjust, align), gap_minimum), align)
        aligned_size == IF adjust # 0 /\ ULt(ALIGN_SIZE, align) THEN size_with_gap ELSE adjust
    IN  prepare_located(memalign_trim(block_locate_free(s, aligned_size), align), adjust)

\* [s, p]: p is the size word the block held (the value returned)
os_tlsf_free(s, ptr) ==
    IF ptr = NULL THEN [s |-> s, p |-> 0]
    ELSE LET block == block_from_ptr(ptr)
             s1 == block_mark_as_free(Touch(s, SizeAddr(block)), block)
         IN  [s |-> insert_merged(merge_next_of(block_merge_prev(s1, block))),
              p |-> Rd(s, SizeAddr(block))]

\* p = os_tlsf_malloc(tlsf, size) has returned a = [s, p]:
\* if (p) { os_memcpy(p, ptr, minsize); os_tlsf_free(tlsf, ptr); }
realloc_copy(a, ptr, minsize) ==
    IF a.p # NULL THEN [s |-> os_tlsf_free(os_memcpy(a.s, a.p, ptr, minsize), ptr).s, p |-> a.p]
    ELSE [s |-> a.s, p |-> NULL]

\* faulty variant of os_tlsf_realloc: never resizes in place, every request
\* with a buffer and a size is served by malloc, copy and free
os_tlsf_realloc_moving(s, ptr, size) ==
    IF ptr # NULL /\ size = 0 THEN [s |-> os_tlsf_free(s, ptr).s, p |-> NULL]
    ELSE IF ptr = NULL THEN os_tlsf_malloc(s, size)
    ELSE realloc_copy(os_tlsf_malloc(Touch(s, SizeAddr(block_from_ptr(ptr))), size), ptr,
                      UMin(block_size(s, block_from_ptr(ptr)), size))

\* faulty variant of os_tlsf_realloc: a zero size with a buffer returns NULL
\* and frees nothing
os_tlsf_realloc_keep(s, ptr, size) ==
    IF ptr # NULL /\ size = 0 THEN [s |-> s, p |-> NULL]
    ELSE os_tlsf_realloc_moving(s, ptr, size)

os_tlsf_realloc(s, ptr, size) ==
    IF ptr # NULL /\ size = 0 THEN [s |-> os_tlsf_free(s, ptr).s, p |-> NULL]
    ELSE IF ptr = NULL THEN os_tlsf_malloc(s, size)
    ELSE LET block == block_from_ptr(ptr)
             next == block_next(s, block)
             cursize == block_size(s, block)
             combined == Add32(Add32(cursize, block_size(s, next)), block_header_overhead)
             adjust == adjust_request_size(size, ALIGN_SIZE)
             s0 == Touch(Touch(s, SizeAddr(block)), SizeAddr(next))
             grown == IF ULt(cursize, adjust)
                      THEN block_mark_as_used(block_merge_next(s0, block).s, block)
                      ELSE s0
         IN  IF ULt(cursize, size) /\ adjust = 0 THEN [s |-> s0, p |-> NULL]
             ELSE IF ULt(cursize, adjust) /\ (~block_is_free(s, next) \/ ULt(combined, adjust))
             THEN realloc_copy(os_tlsf_malloc(s0, size), ptr, UMin(cursize, size))
             ELSE [s |-> block_trim_used(grown, block, adjust), p |-> ptr]

----------------------------------------------------------------------------
(* The allocation functions of os_mem.c, which pass the calls on to the    *)
(* TLSF instance and keep the usage counters.  f is the state they work    *)
(* on: the machine state f.s and the statics cur_used, max_used and        *)
(* zero_mem; a function that returns a value gives [f, p].                 *)

OS_MEM_BUF_MAX_NUM == 16

\* the size field of os_mem_buf_t is 16 bits wide, the percentages of
\* os_mem_monitor_t are 8 bits wide
UINT16_MAX == 65535
UINT8_MAX == 255
ZERO_MEM_SENTINEL == -1582119980
OS_RES_INV == 0
OS_RES_OK == 1

\* &zero_mem: a static of os_mem.c, outside the work memory
ZeroMemAddr == WorkMemBase - WordSize

\* an element of os_mem_buf, all zero at start
NoBuf == [p |-> NULL, size |-> 0, used |-> 0]

\* os_mem_alloc, lines 93-97, the allocator having returned a = [s, p];
\* faulty variant: counts the size of the block instead of the request
alloc_account_block(f, a, size) ==
    IF a.p # NULL
    THEN [f |-> [f EXCEPT !.s = a.s,
                          !.cur_used = Add32(@, block_size(a.s, block_from_ptr(a.p))),
                          !.max_used = UMax(Add32(f.cur_used,
                                                  block_size(a.s, block_from_ptr(a.p))), @)],
          p |-> a.p]
    ELSE [f |-> [f EXCEPT !.s = a.s], p |-> NULL]

alloc_account(f, a, size) ==
    IF a.p # NULL
    THEN [f |-> [f EXCEPT !.s = a.s,
                          !.cur_used = Add32(@, size),
                          !.max_used = UMax(Add32(f.cur_used, size), @)],
          p |-> a.p]
    ELSE [f |-> [f EXCEPT !.s = a.s], p |-> NULL]

\* faulty variant: a zero-size request is passed on to the allocator
os_mem_alloc_through(f, size) == alloc_account(f, os_tlsf_malloc(f.s, size), size)

os_mem_alloc(f, size) ==
    IF size = 0 THEN [f |-> f, p |-> ZeroMemAddr]
    ELSE alloc_account(f, os_tlsf_malloc(f.s, size), size)

\* os_mem_free, lines 108-110, os_tlsf_free having returned a = [s, p];
\* faulty variant: subtracts without looking
free_account_wrapping(f, a) ==
    [f EXCEPT !.s = a.s, !.cur_used = Sub32(@, a.p)]

free_account(f, a) ==
    [f EXCEPT !.s = a.s, !.cur_used = IF ULt(a.p, @) THEN Sub32(@, a.p) ELSE 0]

os_mem_free(f, data) ==
    IF data = ZeroMemAddr \/ data = NULL THEN f
    ELSE free_account(f, os_tlsf_free(f.s, data))

\* os_mem_realloc, lines 129-135, os_tlsf_realloc having returned a
realloc_ret(f, a) == [f |-> [f EXCEPT !.s = a.s], p |-> a.p]

\* faulty variant: the sentinel and the zero size are passed on like
\* any other pointer and size
os_mem_realloc_plain(f, data_p, new_size) ==
    realloc_ret(f, os_tlsf_realloc(f.s, data_p, new_size))

os_mem_realloc(f, data_p, new_size) ==
    IF new_size = 0 THEN [f |-> os_mem_free(f, data_p), p |-> ZeroMemAddr]
    ELSE IF data_p = ZeroMemAddr THEN os_mem_alloc(f, new_size)
    ELSE realloc_ret(f, os_tlsf_realloc(f.s, data_p, new_size))

\* os_tlsf_check (os_mem.h, lines 781-804) follows every free list to the
\* null block, reading each block's size and next_free, and tests nothing.
\* list_walk: the list from block on ends within n blocks without leaving
\* the work memory.  A list that does not end holds a cycle: the function
\* does not return, which is taken with the accesses outside the memory.
RECURSIVE list_walk(_, _, _)
list_walk(s, block, n) ==
    IF block = block_null THEN TRUE
    ELSE IF n = 0 \/ ~InMem(SizeAddr(block)) \/ ~InMem(Add32(block, OffNextFree)) THEN FALSE
    ELSE list_walk(s, Rd(s, Add32(block, OffNextFree)), n - 1)

os_tlsf_check(s) ==
    [s |-> OobUnless(\A fl \in 0..(FL_INDEX_COUNT - 1), sl \in 0..(SL_INDEX_COUNT - 1) :
                        list_walk(s, Rd(s, BlkAddr(fl, sl)), WordCount),
                     s),
     p |-> 0]

\* os_tlsf_walk_pool with integrity_walker (lines 767-779, 813-827, 839-846):
\* the blocks are visited up to the zero-size block; the walker reads the
\* FREE bit and adds 0 to the status
RECURSIVE pool_walk(_, _, _)
pool_walk(s, block, n) ==
    IF n = 0 \/ ~InMem(SizeAddr(block)) THEN FALSE
    ELSE IF block_is_last(s, block) THEN TRUE
    ELSE pool_walk(s, block_next(s, block), n - 1)

os_tlsf_check_pool(s) ==
    [s |-> OobUnless(pool_walk(s, FirstBlock, WordCount), s), p |-> 0]

\* os_mem_test, lines 143-150
test_ret(f, a) ==
    [f |-> [f EXCEPT !.s = a.s], p |-> IF a.p # 0 THEN OS_RES_INV ELSE OS_RES_OK]

test_pool(f, a) ==
    IF a.p # 0 THEN [f |-> [f EXCEPT !.s = a.s], p |-> OS_RES_INV]
    ELSE test_ret(f, os_tlsf_check_pool(a.s))

os_mem_test(f) ==
    IF f.zero_mem # ZERO_MEM_SENTINEL THEN [f |-> f, p |-> OS_RES_INV]
    ELSE test_pool(f, os_tlsf_check(f.s))

\* lv_mem_deinit: os_tlsf_destroy does nothing, os_mem_init makes the
\* allocator anew in the same static array, which holds what it held; the
\* other statics of os_mem.c are not written
lv_mem_deinit(f) == [f EXCEPT !.s = os_tlsf_create_with_pool(f.s)]

\* an os_mem_monitor_t after os_memset(mon_p, 0, ...)
NoMon ==
    [total_size |-> 0, free_cnt |-> 0, free_size |-> 0, free_biggest_size |-> 0,
     used_cnt |-> 0, max_used |-> 0, used_pct |-> 0, frag_pct |-> 0]

os_mem_walker(mon, size, used) ==
    IF used THEN [mon EXCEPT !.used_cnt = Add32(@, 1)]
    ELSE [mon EXCEPT !.free_cnt = Add32(@, 1),
                     !.free_size = Add32(@, size),
                     !.free_biggest_size = IF ULt(@, size) THEN size ELSE @]

\* os_tlsf_walk_pool with os_mem_walker from block on, at most n blocks:
\* [ok, mon], ok being that the walk came to the zero-size block inside the
\* work memory
RECURSIVE os_tlsf_walk_pool(_, _, _, _)
os_tlsf_walk_pool(s, block, mon, n) ==
    IF block = NULL THEN [ok |-> TRUE, mon |-> mon]
    ELSE IF n = 0 \/ ~InMem(SizeAddr(block)) THEN [ok |-> FALSE, mon |-> mon]
    ELSE IF block_is_last(s, block) THEN [ok |-> TRUE, mon |-> mon]
    ELSE os_tlsf_walk_pool(s, block_next(s, block),
                           os_mem_walker(mon, block_size(s, block),
                                         ~block_is_free(s, block)),
                           n - 1)

\* faulty variant of monitor_pct: the fragmentation is the share of the
\* biggest free block itself
monitor_pct_share(f, mon) ==
    [mon EXCEPT !.total_size = OS_MEM_SIZE,
                !.used_pct = Sub32(100, UDiv(Mul32(100, mon.free_size), OS_MEM_SIZE)) % (UINT8_MAX + 1),
                !.frag_pct = IF mon.free_size # 0
                             THEN UDiv(Mul32(100, mon.free_biggest_size), mon.free_size) % (UINT8_MAX + 1)
                             ELSE 0,
                !.max_used = f.max_used]

\* os_mem_monitor, lines 163-172; used_pct and frag_pct are 8 bits wide
monitor_pct(f, mon) ==
    [mon EXCEPT !.total_size = OS_MEM_SIZE,
                !.used_pct = Sub32(100, UDiv(Mul32(100, mon.free_size), OS_MEM_SIZE)) % (UINT8_MAX + 1),
                !.frag_pct = IF mon.free_size # 0
                             THEN (100 - (UDiv(Mul32(100, mon.free_biggest_size), mon.free_size)
                                             % (UINT8_MAX + 1))) % (UINT8_MAX + 1)
                             ELSE 0,
                !.max_used = f.max_used]

\* [s, mon]: the machine after the walk and what *mon_p holds
os_mem_monitor(f) ==
    LET w == os_tlsf_walk_pool(f.s, FirstBlock, NoMon, WordCount)
    IN  [s |-> OobUnless(w.ok, f.s), mon |-> monitor_pct(f, w.mon)]

----------------------------------------------------------------------------
(* The state machine: the heap made by os_mem_init and a caller that       *)
(* allocates, frees, reallocates and writes into the buffers it holds.     *)
(*   mem, wild  the machine state                                          *)
(*   live       the allocations the caller holds: [ptr, req]               *)
(*   last       the last call: [op, size, align, ptr, ret] and cur, the    *)
(*              size the block of ptr had when the call was made           *)
(*   fills      number of buffers the caller has filled                    *)
(*   calls      number of steps the caller has made                        *)

\* bounds of the exploration
MaxLive == 3
MaxFills == 1
MaxCalls == 6

\* request sizes, alignments, and the patterns <<first, step>> a caller fills
\* a buffer with: the word at byte offset off is first - step * off
Sizes == {0, 64, 464, block_size_max, SIZE_MAX}
Aligns == {ALIGN_SIZE, 16}
Patterns == {<<464, 1>>, <<13, 0>>}

M == [mem |-> mem, wild |-> wild]

LivePtrs == {a.ptr : a \in live}

\* the payload size the block of a held buffer has, as the allocator reads it
CurSize(ptr) == IF ptr = NULL THEN 0 ELSE block_size(M, block_from_ptr(ptr))

Call(op, size, align, ptr, ret) ==
    [op |-> op, size |-> size, align |-> align, ptr |-> ptr, ret |-> ret,
     cur |-> CurSize(ptr)]

Keep(r, n) ==
    IF r.p # NULL /\ ~r.s.wild THEN live \cup {[ptr |-> r.p, req |-> n]} ELSE live

Drop(ptr) == {a \in live : a.ptr # ptr}

\* the statics of os_mem.c at program start
MemAtReset ==
    /\ cur_used = 0
    /\ max_used = 0
    /\ zero_mem = ZERO_MEM_SENTINEL
    /\ os_mem_buf = [i \in 0..(OS_MEM_BUF_MAX_NUM - 1) |-> NoBuf]

\* the tick counter and the frame of os_tick_get before anything has run
TickFrame(hoist) ==
    [pc |-> "idle", hoist |-> hoist, lo |-> 0, result |-> 0, held |-> 0,
     prev_tick |-> 0, elaps |-> 0, done |-> FALSE, incs |-> 0]

TickAtReset ==
    /\ sys_time = 0
    /\ tick_irq_flag = 0
    /\ tk = TickFrame(FALSE)

\* bound of the exploration: timer nodes the heap has room for
MaxTimers == 3

Slots == 1..MaxTimers

\* a timer callback is the sequence of calls it makes; CbNull is timer_cb = NULL
CbNull == <<"null">>

\* what the scheduler's observer has noted (no program state):
\*   uaf     a node was used after os_timer_del freed it
\*   hung    the dispatch loop went beyond MaxSteps
\*   freed   nodes freed since the current pass over the list began
\*   fired   the callbacks invoked in the last top-level os_timer_handler call
\*   reent   what the calls of os_timer_handler made from callbacks did
\*   ret     what the last os_timer_handler call returned
\*   olds    the timers that were in the list when that call began
\*   due0    those of them due and not paused then, in list order
\*   paused0 those of them paused then; killed: those callbacks deleted;
\*           born: the nodes handed out since the call began
\*   ops, ticks   how many calls the application and the tick source made
\*   fresh   the last step was a top-level os_timer_handler call that found
\*           the scheduler enabled: ret is what it returned
\*   readied the timers os_timer_ready was called for since the last tick
\*           and the last os_timer_handler call
\* and, in a node: fires, the invocations since os_timer_set_repeat_count
\* last gave the timer its count, quota (-1 if never); kept, the last_run
\* the timer had when it was paused
NoObs ==
    [uaf |-> FALSE, hung |-> FALSE, freed |-> {}, fired |-> <<>>, reent |-> {},
     ret |-> 0, olds |-> {}, due0 |-> <<>>, paused0 |-> {}, killed |-> {},
     born |-> {}, ops |-> 0, ticks |-> 0, fresh |-> FALSE, readied |-> {}]

\* the bytes of a node no timer lives in
NoNode ==
    [period |-> 0, last_run |-> 0, cb |-> CbNull, repeat_count |-> 0,
     paused |-> FALSE, fires |-> 0, quota |-> 0, kept |-> 0]

\* the statics of os_timer.c at program start, before _os_timer_core_init
TimerAtReset ==
    /\ tnode = [i \in Slots |-> NoNode]
    /\ talloc = {}
    /\ os_timer_ll = <<>>
    /\ timer_deleted = FALSE
    /\ timer_created = FALSE
    /\ already_running = FALSE
    /\ os_timer_run = FALSE
    /\ obs = NoObs

Init ==
    /\ mem = os_mem_init.mem
    /\ wild = FALSE
    /\ live = {}
    /\ last = Call("init", 0, 0, NULL, NULL)
    /\ fills = 0
    /\ calls = 0
    /\ MemAtReset
    /\ TickAtReset
    /\ TimerAtReset

\* a call returns r = [s, p]: the machine is in state r.s, the caller notes
\* the call and holds what it was given and has not given back
Returns(r, op, size, align, ptr) ==
    /\ mem' = r.s.mem
    /\ wild' = r.s.wild
    /\ last' = Call(op, size, align, ptr, r.p)
    /\ live' = CASE op = "free" -> Drop(ptr)
                  [] op = "realloc" ->
                        IF r.p = NULL /\ size # 0 THEN live
                        ELSE {a \in Keep(r, size) : a.ptr # ptr \/ (a.ptr = r.p /\ a.req = size)}
                  [] OTHER -> Keep(r, size)

Malloc(n) ==
    /\ ~wild
    /\ calls < MaxCalls
    /\ calls' = calls + 1
    /\ Cardinality(live) < MaxLive
    /\ Returns(os_tlsf_malloc(M, n), "malloc", n, 0, NULL)
    /\ UNCHANGED <<fills, memVars, tickVars, timerVars>>

Memalign(align, n) ==
    /\ ~wild
    /\ calls < MaxCalls
    /\ calls' = calls + 1
    /\ Cardinality(live) < MaxLive
    /\ Returns(os_tlsf_memalign(M, align, n), "memalign", n, align, NULL)
    /\ UNCHANGED <<fills, memVars, tickVars, timerVars>>

Free(ptr) ==
    /\ ~wild
    /\ calls < MaxCalls
    /\ calls' = calls + 1
    /\ Returns(os_tlsf_free(M, ptr), "free", 0, 0, ptr)
    /\ UNCHANGED <<fills, memVars, tickVars, timerVars>>

Realloc(ptr, n) ==
    /\ ~wild
    /\ calls < MaxCalls
    /\ calls' = calls + 1
    /\ ptr = NULL => Cardinality(live) < MaxLive
    /\ Returns(os_tlsf_realloc(M, ptr, n), "realloc", n, 0, ptr)
    /\ UNCHANGED <<fills, memVars, tickVars, timerVars>>

\* the caller fills a buffer it holds, all the bytes it asked for
Fill(ptr, pat) ==
    /\ ~wild
    /\ calls < MaxCalls
    /\ calls' = calls + 1
    /\ fills < MaxFills
    /\ \E a \in live :
          /\ a.ptr = ptr
          /\ ULt(a.req, block_size_max)
          /\ LET n == a.req \div WordSize
                 ok == InMem(ptr) /\ InMem(ptr + (n - 1) * WordSize)
                 first == Idx(ptr)
             IN  /\ mem' = [i \in 0..(WordCount - 1) |->
                               IF ok /\ i >= first /\ i < first + n
                               THEN pat[1] - pat[2] * ((i - first) * WordSize)
                               ELSE mem[i]]
                 /\ wild' = ~ok
    /\ fills' = fills + 1
    /\ last' = Call("fill", pat[1], pat[2], ptr, NULL)
    /\ UNCHANGED <<live, memVars, tickVars, timerVars>>

Next ==
    \/ \E n \in Sizes : Malloc(n)
    \/ \E align \in Aligns, n \in Sizes : Memalign(align, n)
    \/ \E ptr \in LivePtrs \cup {NULL} : Free(ptr)
    \/ \E ptr \in LivePtrs \cup {NULL}, n \in Sizes : Realloc(ptr, n)
    \/ \E ptr \in LivePtrs, pat \in Patterns : Fill(ptr, pat)

Spec == Init /\ [][Next]_vars

----------------------------------------------------------------------------
(* The same heap used through os_mem.c: os_mem_alloc, os_mem_free,         *)
(* os_mem_realloc and os_mem_test.  The caller holds what it was given,    *)
(* the address of zero_mem included, fills buffers, and may write a word   *)
(* through the pointer a zero-size request gave it.                        *)

MemSizes == {0, 64, 464, block_size_max}

F == [s |-> M, cur_used |-> cur_used, max_used |-> max_used, zero_mem |-> zero_mem]

HeldPtrs == LivePtrs \cup {NULL, ZeroMemAddr}

\* a call returns r = [f, p]
MemReturns(r, op, size, ptr) ==
    /\ ~wild
    /\ calls < MaxCalls
    /\ calls' = calls + 1
    /\ mem' = r.f.s.mem
    /\ wild' = r.f.s.wild
    /\ cur_used' = r.f.cur_used
    /\ max_used' = r.f.max_used
    /\ zero_mem' = r.f.zero_mem
    /\ last' = Call(op, size, 0, ptr, r.p)
    /\ live' = CASE op = "os_mem_free" -> Drop(ptr)
                  [] op = "os_mem_test" -> live
                  [] op = "os_mem_realloc" /\ r.p = NULL -> live
                  [] r.p = NULL \/ r.f.s.wild -> Drop(ptr)
                  [] OTHER -> Drop(ptr) \cup {[ptr |-> r.p, req |-> size]}
    /\ UNCHANGED <<fills, os_mem_buf, tickVars, timerVars>>

MemAlloc(n) ==
    /\ Cardinality(live) < MaxLive
    /\ MemReturns(os_mem_alloc(F, n), "os_mem_alloc", n, NULL)

MemFree(ptr) ==
    MemReturns([f |-> os_mem_free(F, ptr), p |-> NULL], "os_mem_free", 0, ptr)

MemRealloc(ptr, n) ==
    /\ ptr = NULL => Cardinality(live) < MaxLive
    /\ MemReturns(os_mem_realloc(F, ptr, n), "os_mem_realloc", n, ptr)

\* a walk of os_mem_test that leaves the work memory reads whatever lies
\* there: either the call does not return, or the walk comes to an end all
\* the same and the call returns what it has, the memory being as it was
test_outcome(r, returns) ==
    IF r.f.s.wild /\ returns THEN [r EXCEPT !.f.s.wild = FALSE] ELSE r

MemTest(returns) ==
    MemReturns(test_outcome(os_mem_test(F), returns), "os_mem_test", 0, NULL)

\* os_mem_monitor(&mon): last notes what the call stored in mon
MemMonitor ==
    /\ ~wild
    /\ calls < MaxCalls
    /\ calls' = calls + 1
    /\ LET r == os_mem_monitor(F)
       IN  /\ wild' = r.s.wild
           /\ last' = [op |-> "os_mem_monitor", size |-> 0, align |-> 0,
                       ptr |-> NULL, ret |-> NULL, cur |-> 0, mon |-> r.mon]
    /\ UNCHANGED <<mem, live, fills, memVars, tickVars, timerVars>>

\* lv_mem_deinit(): what the caller held is gone with the old heap
MemDeinit ==
    /\ ~wild
    /\ calls < MaxCalls
    /\ calls' = calls + 1
    /\ LET r == lv_mem_deinit(F)
       IN  /\ mem' = r.s.mem
           /\ wild' = r.s.wild
           /\ cur_used' = r.cur_used
           /\ max_used' = r.max_used
           /\ zero_mem' = r.zero_mem
    /\ live' = {}
    /\ last' = Call("lv_mem_deinit", 0, 0, NULL, NULL)
    /\ UNCHANGED <<fills, os_mem_buf, tickVars, timerVars>>

\* the caller stores a word through the pointer os_mem_alloc(0) gave it
Scribble ==
    /\ ~wild
    /\ calls < MaxCalls
    /\ calls' = calls + 1
    /\ ZeroMemAddr \in LivePtrs
    /\ zero_mem = ZERO_MEM_SENTINEL
    /\ zero_mem' = 0
    /\ last' = Call("scribble", 0, 0, ZeroMemAddr, NULL)
    /\ UNCHANGED <<mem, wild, live, fills, cur_used, max_used, os_mem_buf,
                   tickVars, timerVars>>

NextMem ==
    \/ \E n \in MemSizes : MemAlloc(n)
    \/ \E ptr \in HeldPtrs : MemFree(ptr)
    \/ \E ptr \in HeldPtrs, n \in MemSizes : MemRealloc(ptr, n)
    \/ \E returns \in BOOLEAN : MemTest(returns)
    \/ MemMonitor
    \/ MemDeinit
    \/ \E ptr \in LivePtrs \ {ZeroMemAddr}, pat \in Patterns : Fill(ptr, pat)
    \/ Scribble

SpecMem == Init /\ [][NextMem]_vars

----------------------------------------------------------------------------
(* The temporary buffers of os_mem.c: os_mem_buf_get, os_mem_buf_release   *)
(* and os_mem_buf_free_all over the slots of os_mem_buf.  The heap is not  *)
(* carried in this part: what the call of os_mem_realloc in os_mem_buf_get *)
(* returns is drawn from all it can return, which is NULL, the address it  *)
(* was given, or an address no slot holds, and NULL alone for a size the   *)
(* heap serves to nobody (os_tlsf_realloc of block_size_max bytes or       *)
(* more).  last notes the call: its size, what it returned, whether it     *)
(* called os_mem_realloc (heap) and with which address (ptr).              *)

\* bound of the exploration: the calls made on the slots
MaxBufOps == 3

BufSizes == {0, 4, 8, 12, block_size_max}

\* the slots already in use at the start: none, or all but two, taken one
\* after the other by os_mem_buf_get(12) and os_mem_buf_get(8) in turn with
\* no os_mem_buf_release between
BufPrefills == {0, OS_MEM_BUF_MAX_NUM - 2}

BufSlots == 0..(OS_MEM_BUF_MAX_NUM - 1)

\* the k-th of the addresses the heap hands out, one more than there are slots
BufAddr(k) == WorkMemBase + 2 * WordSize + ALIGN_SIZE * k

BufAddrs == {BufAddr(k) : k \in 0..OS_MEM_BUF_MAX_NUM}


\* the first loop of os_mem_buf_get from slot i on, i_guess being the slot
\* remembered so far: the slot of an exact fit, else the slot remembered
RECURSIVE buf_guess_first(_, _, _, _)
buf_guess_first(b, size, i, i_guess) ==
    IF i = OS_MEM_BUF_MAX_NUM THEN i_guess
    ELSE IF b[i].used = 0 /\ ULe(size, b[i].size)
         THEN IF b[i].size = size THEN i
              ELSE IF i_guess < 0 THEN buf_guess_first(b, size, i + 1, i)
              ELSE buf_guess_first(b, size, i + 1, i_guess)
         ELSE buf_guess_first(b, size, i + 1, i_guess)

RECURSIVE buf_guess(_, _, _, _)
buf_guess(b, size, i, i_guess) ==
    IF i = OS_MEM_BUF_MAX_NUM THEN i_guess
    ELSE IF b[i].used = 0 /\ ULe(size, b[i].size)
         THEN IF b[i].size = size THEN i
              ELSE IF i_guess < 0 THEN buf_guess(b, size, i + 1, i)
              ELSE IF b[i].size < b[i_guess].size
                   THEN buf_guess(b, size, i + 1, i)
                   ELSE buf_guess(b, size, i + 1, i_guess)
         ELSE buf_guess(b, size, i + 1, i_guess)

\* faulty variant of buf_unused: the used flag is not looked at
buf_unused_any(b) == CHOOSE i \in BufSlots : \A j \in BufSlots : i <= j

\* the slot the second loop of os_mem_buf_get stops at, -1 if at none
buf_unused(b) ==
    LET U == {i \in BufSlots : b[i].used = 0}
    IN IF U = {} THEN -1 ELSE CHOOSE i \in U : \A j \in U : i <= j

\* the address os_mem_buf_get passes to os_mem_realloc when it gets there
buf_realloc_arg(b) == IF buf_unused(b) < 0 THEN NULL ELSE b[buf_unused(b)].p

\* what os_mem_realloc(data_p, size) can return to os_mem_buf_get, size # 0
buf_realloc(b, data_p, size) ==
    IF ~ULt(size, block_size_max) THEN {NULL}
    ELSE LET held == {b[i].p : i \in BufSlots}
         IN {NULL, data_p, CHOOSE a \in BufAddrs \ held :
                               \A c \in BufAddrs \ held : a <= c}

\* os_mem_buf_get(size) on the slots b, buf being what os_mem_realloc
\* returns if called: the slots after the call, what the call returns (p),
\* whether it called os_mem_realloc (heap)
os_mem_buf_get_marking(b, size, buf) ==
    IF size = 0 THEN [b |-> b, p |-> NULL, heap |-> FALSE]
    ELSE LET i_guess == buf_guess(b, size, 0, -1)
             i == buf_unused(b)
         IN IF i_guess >= 0
            THEN [b |-> [b EXCEPT ![i_guess].used = 1], p |-> b[i_guess].p,
                  heap |-> FALSE]
            ELSE IF i < 0 THEN [b |-> b, p |-> NULL, heap |-> FALSE]
            ELSE [b |-> [b EXCEPT ![i] = [p |-> buf,
                                          size |-> size % (UINT16_MAX + 1),
                                          used |-> 1]],
                  p |-> buf, heap |-> TRUE]

os_mem_buf_get(b, size, buf) ==
    IF size = 0 THEN [b |-> b, p |-> NULL, heap |-> FALSE]
    ELSE LET i_guess == buf_guess(b, size, 0, -1)
             i == buf_unused(b)
         IN IF i_guess >= 0
            THEN [b |-> [b EXCEPT ![i_guess].used = 1], p |-> b[i_guess].p,
                  heap |-> FALSE]
            ELSE IF i < 0 THEN [b |-> b, p |-> NULL, heap |-> FALSE]
            ELSE IF buf = NULL THEN [b |-> b, p |-> NULL, heap |-> TRUE]
            ELSE [b |-> [b EXCEPT ![i] = [p |-> buf,
                                          size |-> size % (UINT16_MAX + 1),
                                          used |-> 1]],
                  p |-> buf, heap |-> TRUE]

\* os_mem_buf_release(p): the first slot that holds p is unused again
os_mem_buf_release(b, p) ==
    LET H == {i \in BufSlots : b[i].p = p}
    IN IF H = {} THEN b
       ELSE [b EXCEPT ![CHOOSE i \in H : \A j \in H : i <= j].used = 0]

\* os_mem_buf_free_all(): every slot that holds a buffer is empty again
os_mem_buf_free_all(b) == [i \in BufSlots |-> IF b[i].p # NULL THEN NoBuf ELSE b[i]]

BufCall(op, size, ptr, ret, heap) ==
    [op |-> op, size |-> size, ptr |-> ptr, ret |-> ret, heap |-> heap]

\* live holds what the caller has borrowed: [ptr, req]
InitBuf ==
    /\ mem = os_mem_init.mem
    /\ wild = FALSE
    /\ last = BufCall("init", 0, NULL, NULL, FALSE)
    /\ fills = 0
    /\ calls = 0
    /\ cur_used = 0
    /\ max_used = 0
    /\ zero_mem = ZERO_MEM_SENTINEL
    /\ \E k \in BufPrefills :
          os_mem_buf = [i \in BufSlots |->
                           IF i < k
                           THEN [p |-> BufAddr(i),
                                 size |-> IF i % 2 = 0 THEN 12 ELSE 8,
                                 used |-> 1]
                           ELSE NoBuf]
    /\ live = {[ptr |-> os_mem_buf[i].p, req |-> os_mem_buf[i].size] :
                   i \in {j \in BufSlots : os_mem_buf[j].used = 1}}
    /\ TickAtReset
    /\ TimerAtReset

BufStep(b, held, op, size, ptr, ret, heap) ==
    /\ calls < MaxBufOps
    /\ calls' = calls + 1
    /\ os_mem_buf' = b
    /\ live' = held
    /\ last' = BufCall(op, size, ptr, ret, heap)
    /\ UNCHANGED <<mem, wild, fills, cur_used, max_used, zero_mem,
                   tickVars, timerVars>>

BufGet(size) ==
    \E buf \in buf_realloc(os_mem_buf, buf_realloc_arg(os_mem_buf), size) :
        LET r == os_mem_buf_get(os_mem_buf, size, buf)
        IN BufStep(r.b,
                   IF r.p = NULL THEN live ELSE live \cup {[ptr |-> r.p, req |-> size]},
                   "os_mem_buf_get", size,
                   IF r.heap THEN buf_realloc_arg(os_mem_buf) ELSE NULL,
                   r.p, r.heap)

BufRelease(p) ==
    BufStep(os_mem_buf_release(os_mem_buf, p), Drop(p), "os_mem_buf_release", 0, p,
            NULL, FALSE)

BufFreeAll ==
    BufStep(os_mem_buf_free_all(os_mem_buf), {}, "os_mem_buf_free_all", 0, NULL,
            NULL, FALSE)

NextBuf ==
    \/ \E size \in BufSizes : BufGet(size)
    \/ \E p \in {os_mem_buf[i].p : i \in BufSlots} : BufRelease(p)
    \/ BufFreeAll

SpecBuf == InitBuf /\ [][NextBuf]_vars

\* the same without os_mem_buf_free_all
NextBorrow ==
    \/ \E size \in BufSizes : BufGet(size)
    \/ \E p \in {os_mem_buf[i].p : i \in BufSlots} : BufRelease(p)

SpecBorrow == InitBuf /\ [][NextBorrow]_vars

----------------------------------------------------------------------------
(* The heap of the default configuration asked for aligned buffers: the    *)
(* calls of the heap part, with the alignments and sizes of the memalign   *)
(* scenario.                                                               *)

AlignSizes == {0, 100, 464}
AlignAligns == {ALIGN_SIZE, 256}

NextAlign ==
    \/ \E n \in AlignSizes : Malloc(n)
    \/ \E align \in AlignAligns, n \in AlignSizes : Memalign(align, n)
    \/ \E ptr \in LivePtrs \cup {NULL} : Free(ptr)
    \/ \E ptr \in LivePtrs, pat \in Patterns : Fill(ptr, pat)

SpecAlign == Init /\ [][NextAlign]_vars

----------------------------------------------------------------------------
(* The heap asked for buffers of valid sizes, among them one whose class,  *)
(* rounded up, lies past the last first-level index.                       *)

SearchSizes == {64, 464, block_size_max - ALIGN_SIZE}

NextSearch ==
    \/ \E n \in SearchSizes : Malloc(n)
    \/ \E ptr \in LivePtrs \cup {NULL} : Free(ptr)
    \/ \E ptr \in LivePtrs, pat \in Patterns : Fill(ptr, pat)

SpecSearch == Init /\ [][NextSearch]_vars

----------------------------------------------------------------------------
(* The pool given by the caller: os_tlsf_create has made the control       *)
(* structure at the start of the work memory, and the caller adds a pool   *)
(* of its own choice with os_tlsf_add_pool(tlsf, mem, bytes).  Memory      *)
(* outside work_mem_int is not kept: a pool that reaches beyond it is      *)
(* followed up to its first access outside.                                *)

PoolMems == {PoolMem, Add32(PoolMem, 2)}
PoolBytes == {block_size_min + ALIGN_SIZE, 80, 240, PoolBytesArg,
              block_size_max + os_tlsf_pool_overhead,
              block_size_max + os_tlsf_pool_overhead + ALIGN_SIZE}

\* pool_bytes of os_tlsf_add_pool(tlsf, mem, bytes)
pool_bytes_of(bytes) == align_down(Sub32(bytes, os_tlsf_pool_overhead), ALIGN_SIZE)

\* os_tlsf_add_pool(tlsf, mem, bytes): [s, p], p the pool or 0
os_tlsf_add_pool_at(s, mem_p, bytes) ==
    IF mem_p % ALIGN_SIZE # 0 THEN [s |-> s, p |-> NULL]
    ELSE IF ULt(pool_bytes_of(bytes), block_size_min)
            \/ ULt(block_size_max, pool_bytes_of(bytes)) THEN [s |-> s, p |-> NULL]
    ELSE LET block == offset_to_block(mem_p, Neg32(block_header_overhead))
             s1 == block_set_size(s, block, pool_bytes_of(bytes))
             s2 == block_set_free(s1, block)
             s3 == block_set_prev_used(s2, block)
         IN  [s |-> pool_sentinel(block_insert(s3, block), block), p |-> mem_p]

\* os_tlsf_create on the zeroed work memory
os_tlsf_create == control_constructor([mem |-> [i \in 0..(WordCount - 1) |-> 0], wild |-> FALSE])

InitPool ==
    /\ mem = os_tlsf_create.mem
    /\ wild = FALSE
    /\ live = {}
    /\ last = Call("init", 0, 0, NULL, NULL)
    /\ fills = 0
    /\ calls = 0
    /\ MemAtReset
    /\ TickAtReset
    /\ TimerAtReset

\* the caller adds its pool to the allocator that has none
AddPool(mem_p, bytes) ==
    /\ ~wild
    /\ mem = os_tlsf_create.mem
    /\ calls < MaxCalls
    /\ calls' = calls + 1
    /\ LET r == os_tlsf_add_pool_at(M, mem_p, bytes)
       IN  /\ mem' = r.s.mem
           /\ wild' = r.s.wild
           /\ last' = Call("os_tlsf_add_pool", bytes, 0, NULL, r.p)
    /\ UNCHANGED <<live, fills, memVars, tickVars, timerVars>>

NextPool ==
    \/ \E mem_p \in PoolMems, bytes \in PoolBytes : AddPool(mem_p, bytes)
    \/ \E n \in SearchSizes : Malloc(n)
    \/ \E ptr \in LivePtrs \cup {NULL} : Free(ptr)
    \/ \E ptr \in LivePtrs, pat \in Patterns : Fill(ptr, pat)

SpecPool == InitPool /\ [][NextPool]_vars

----------------------------------------------------------------------------
(* Reading the heap of a machine state s: the physical chain of blocks and *)
(* the free lists.                                                         *)

\* the most blocks a pool of pool_bytes holds, the sentinel included
MaxBlocks == pool_bytes \div (block_size_min + block_header_overhead) + 1

\* the blocks os_tlsf_walk_pool visits from b on, following block_next, and
\* the zero-size block that ends the walk; cut where the chain leaves the
\* work memory or grows longer than any tiling of the pool
RECURSIVE PhysFrom(_, _, _)
PhysFrom(s, b, n) ==
    IF n = 0 \/ ~InMem(SizeAddr(b)) THEN <<>>
    ELSE IF block_is_last(s, b) THEN <<b>>
    ELSE <<b>> \o PhysFrom(s, block_next(s, b), n - 1)

PhysBlocks(s) == PhysFrom(s, FirstBlock, MaxBlocks)

ReachesSentinel(s) ==
    /\ PhysBlocks(s) # <<>>
    /\ block_is_last(s, PhysBlocks(s)[Len(PhysBlocks(s))])

\* payload size plus header overhead, summed over the blocks of bs
RECURSIVE SumSizes(_, _)
SumSizes(s, bs) ==
    IF bs = <<>> THEN 0
    ELSE Add32(Add32(block_size(s, Head(bs)), block_header_overhead), SumSizes(s, Tail(bs)))

\* the blocks linked from b on by next_free, up to the null block
RECURSIVE ListFrom(_, _, _)
ListFrom(s, b, n) ==
    IF n = 0 \/ b = block_null THEN <<>>
    ELSE IF ~InMem(Add32(b, OffNextFree)) THEN <<b>>
    ELSE <<b>> \o ListFrom(s, Rd(s, Add32(b, OffNextFree)), n - 1)

FreeList(s, fl, sl) == ListFrom(s, Rd(s, BlkAddr(fl, sl)), MaxBlocks)

FlRange == 0..(FL_INDEX_COUNT - 1)

SlRange == 0..(SL_INDEX_COUNT - 1)

\* every block with the payload bytes of the pool: the walk ends at a
\* zero-size block and the sizes and overheads, the sentinel's included, add
\* up to the bytes given to os_tlsf_add_pool
Tiling(s) == ReachesSentinel(s) /\ SumSizes(s, PhysBlocks(s)) = PoolBytesArg

NoAdjacentFree(s) ==
    \A i \in 1..(Len(PhysBlocks(s)) - 1) :
        ~(block_is_free(s, PhysBlocks(s)[i]) /\ block_is_free(s, PhysBlocks(s)[i + 1]))

FlagsConsistent(s) ==
    /\ ~block_is_prev_free(s, FirstBlock)
    /\ \A i \in 1..(Len(PhysBlocks(s)) - 1) :
          block_is_prev_free(s, PhysBlocks(s)[i + 1]) <=> block_is_free(s, PhysBlocks(s)[i])
    /\ ReachesSentinel(s) => ~block_is_free(s, PhysBlocks(s)[Len(PhysBlocks(s))])

ListsPlaced(s) ==
    \A fl \in FlRange, sl \in SlRange :
        \A i \in 1..Len(FreeList(s, fl, sl)) :
            LET b == FreeList(s, fl, sl)[i]
            IN  /\ InMem(SizeAddr(b))
                /\ block_is_free(s, b)
                /\ mapping_insert(block_size(s, b)) = <<fl, sl>>

BitmapsConsistent(s) ==
    \A fl \in FlRange :
        /\ (Bit(Rd(s, control + OffFlBitmap), fl) = 1) <=> (Rd(s, SlAddr(fl)) # 0)
        /\ \A sl \in SlRange :
              (Bit(Rd(s, SlAddr(fl)), sl) = 1) <=> (Rd(s, BlkAddr(fl, sl)) # block_null)

\* what the allocator state consists of: the blocks with their size words
\* (size, FREE and PREV_FREE bits), the free lists in order, the bitmaps
Layout(s) == [i \in 1..Len(PhysBlocks(s)) |->
                <<PhysBlocks(s)[i], Rd(s, SizeAddr(PhysBlocks(s)[i]))>>]

Lists(s) == [fl \in FlRange |-> [sl \in SlRange |-> FreeList(s, fl, sl)]]

Bitmaps(s) == <<Rd(s, control + OffFlBitmap), [fl \in FlRange |-> Rd(s, SlAddr(fl))]>>

AllocatorState(s) == <<Layout(s), Lists(s), Bitmaps(s)>>

----------------------------------------------------------------------------
(* The properties of the allocator.                                        *)

\* no access outside the work memory or outside the bounds of sl_bitmap and
\* blocks has happened: the state is one the C program defines
Defined == ~wild

\* C1 (size conservation): in every state reached by malloc / memalign /
\* realloc / free on the fresh pool, following block_next from the first
\* block reaches the zero-size sentinel and the payload sizes plus header
\* overheads of all blocks add up to the bytes of the pool.
C1_SizeConservation == Defined => Tiling(M)

\* C2 (coalesce completeness): in every state reached, no two physically
\* adjacent blocks are both free.
C2_CoalesceCompleteness == Defined => NoAdjacentFree(M)

\* C3 (flag consistency): in every state reached, a block's PREV_FREE bit is
\* set exactly when its physical predecessor's FREE bit is set; the first
\* block has PREV_FREE clear and the sentinel is used.
C3_FlagConsistency == Defined => FlagsConsistent(M)

\* C4 (free-list placement): in every state reached, every block linked on
\* blocks[fl][sl] is marked free and mapping_insert of its size is (fl, sl).
C4_FreeListPlacement == Defined => ListsPlaced(M)

NonEmptyLists == {x \in FlRange \X SlRange : Rd(M, BlkAddr(x[1], x[2])) # block_null}

C7_FitGuarantee ==
    (Defined /\ last.op = "malloc" /\ last.size # 0 /\ last.ret # NULL)
        => /\ ~block_is_free(M, block_from_ptr(last.ret))
           /\ ULe(last.size, block_size(M, block_from_ptr(last.ret)))

\* C8 (invalid request sizes): os_tlsf_malloc(0) and os_tlsf_malloc(n) for
\* every n with block_size_max <= n <= SIZE_MAX return NULL and leave the
\* allocator state unchanged.
C8_InvalidSizes ==
    [][(/\ last'.op = "malloc"
        /\ last'.size = 0 \/ ULe(block_size_max, last'.size)
        /\ Defined')
           => (last'.ret = NULL /\ mem' = mem)]_vars

\* malloc(n), free of its result, malloc(n) again, from the present state
RoundTrip(n) ==
    LET r1 == os_tlsf_malloc(M, n)
        r2 == os_tlsf_free(r1.s, r1.p)
        r3 == os_tlsf_malloc(r2.s, n)
    IN  (r1.p # NULL /\ ~r3.s.wild)
            => (AllocatorState(r2.s) = AllocatorState(M) /\ r3.p = r1.p)

\* C9 (malloc/free round trip): from every state reached and every n for
\* which os_tlsf_malloc(n) returns p, os_tlsf_free(p) restores the block
\* layout, the free lists and both bitmaps, and a following
\* os_tlsf_malloc(n) returns p again.
C9_RoundTrip == Defined => \A n \in Sizes : RoundTrip(n)

\* the condition of the in-place path of os_tlsf_realloc(ptr, n), read in
\* the state before the call
InPlace(ptr, n) ==
    LET block == block_from_ptr(ptr)
        next == block_next(M, block)
        cursize == block_size(M, block)
        combined == Add32(Add32(cursize, block_size(M, next)), block_header_overhead)
        adjust == adjust_request_size(n, ALIGN_SIZE)
    IN  ULe(adjust, cursize) \/ (block_is_free(M, next) /\ ULe(adjust, combined))

\* C10 (in-place realloc), as stated: os_tlsf_realloc(p, n) with p non-null
\* and n > 0 returns p whenever the adjusted size is <= the block's size, or
\* the next block is free and the two with the header overhead cover it.
C10_InPlaceAsStated ==
    [][(/\ last'.op = "realloc" /\ last'.ptr # NULL /\ last'.size # 0
        /\ InPlace(last'.ptr, last'.size)
        /\ Defined')
           => last'.ret = last'.ptr]_vars

\* C10 (in-place realloc), for the requests that are not too large: when
\* adjust_request_size(n) is not 0, os_tlsf_realloc(p, n) with p non-null
\* and n > 0 returns p whenever the adjusted size is <= the block's size, or
\* the next block is free and the two with the header overhead cover it.
C10_InPlaceRealloc ==
    [][(/\ last'.op = "realloc" /\ last'.ptr # NULL /\ last'.size # 0
        /\ adjust_request_size(last'.size, ALIGN_SIZE) # 0
        /\ InPlace(last'.ptr, last'.size)
        /\ Defined')
           => last'.ret = last'.ptr]_vars

\* C10, a state it speaks of: a buffer of a 64-byte block has been resized
\* to 464 bytes into its free neighbour and has stayed where it was
C10_Witness ==
    /\ Defined
    /\ last.op = "realloc" /\ last.ptr # NULL /\ last.cur = 64 /\ last.size = 464
    /\ last.ret = last.ptr
    /\ block_size(M, block_from_ptr(last.ptr)) >= 464

\* a request os_tlsf_realloc(ptr, n) that cannot be satisfied, read in the
\* state before the call: n exceeds block_size_max, or the block cannot be
\* resized in place and no free block serves os_tlsf_malloc(n)
Unsatisfiable(ptr, n) ==
    \/ ULt(block_size_max, n)
    \/ /\ adjust_request_size(n, ALIGN_SIZE) # 0
       /\ ~InPlace(ptr, n)
       /\ os_tlsf_malloc(M, n).p = NULL

\* C11 (unsatisfiable realloc leaves the original intact): for p non-null
\* and n > 0 that cannot be satisfied, os_tlsf_realloc(p, n) returns NULL
\* and the blocks, free lists and bitmaps are as before the call, p's block
\* still allocated with its size.
C11_UnsatisfiableRealloc ==
    [][(/\ last'.op = "realloc" /\ last'.ptr # NULL /\ last'.size # 0
        /\ Unsatisfiable(last'.ptr, last'.size)
        /\ Defined')
           => (/\ last'.ret = NULL
               /\ AllocatorState(M)' = AllocatorState(M))]_vars

\* C12 (degenerate realloc reduces to malloc / free): from every state
\* reached, os_tlsf_realloc(NULL, n) with n > 0 gives the result and the
\* state of os_tlsf_malloc(n), and os_tlsf_realloc(p, 0) with p non-null
\* gives the state of os_tlsf_free(p) and returns NULL.
C12_DegenerateRealloc ==
    Defined =>
        /\ \A n \in Sizes \ {0} : os_tlsf_realloc(M, NULL, n) = os_tlsf_malloc(M, n)
        /\ \A p \in LivePtrs :
              /\ os_tlsf_realloc(M, p, 0).p = NULL
              /\ os_tlsf_realloc(M, p, 0).s = os_tlsf_free(M, p).s

\* C12, a state it speaks of: a buffer has been given back through
\* os_tlsf_realloc(p, 0) while another buffer is held
C12_Witness ==
    /\ Defined
    /\ last.op = "realloc" /\ last.ptr # NULL /\ last.size = 0 /\ last.ret = NULL
    /\ LivePtrs # {}

----------------------------------------------------------------------------
(* The millisecond tick (os_hal_tick.c).                                   *)
(*                                                                         *)
(*   sys_time       the counter, a 32-bit word                             *)
(*   tick_irq_flag  the volatile flag os_tick_inc clears                   *)
(*   tk             the frame of the main program's os_tick_elaps call, of *)
(*                  the os_tick_get inside it: position, halves read so    *)
(*                  far, result, and what the build made of the loop       *)
(*                                                                         *)
(* os_tick_inc runs as an interrupt: it is one step and can fall between   *)
(* any two steps of the caller. sys_time is not volatile, so the place of  *)
(* its load relative to the accesses of the volatile flag is the           *)
(* compiler's choice: tk.hoist = FALSE is the load inside the loop, in     *)
(* program order; tk.hoist = TRUE is the load moved in front of the loop   *)
(* (what gcc -O1 and above emit for this function).  On a 16-bit target    *)
(* the load is two half-word loads, low half first.                        *)

UINT32_MAX == -1

HalfWord == 65536

Lo16(v) == v % HalfWord

Hi16(v) == ((v - Lo16(v)) \div HalfWord) % HalfWord

Join16(hi, lo) == (IF hi >= HalfWord \div 2 THEN hi - HalfWord ELSE hi) * HalfWord + lo

\* bounds of the exploration
MaxIncs == 3

\* counter values at the start, tick periods, and time stamps passed in
StartTicks == {0, HalfWord - 1, UINT32_MAX}
TickPeriods == {1}
PrevTicks == {0, 1, HalfWord, UINT32_MAX}

os_tick_elaps_short(act_time, prev_tick) ==
    IF ULe(prev_tick, act_time)
    THEN Sub32(act_time, prev_tick)
    ELSE Add32(Sub32(UINT32_MAX, prev_tick), act_time)

os_tick_elaps(act_time, prev_tick) ==
    IF ULe(prev_tick, act_time)
    THEN Sub32(act_time, prev_tick)
    ELSE Add32(Add32(Sub32(UINT32_MAX, prev_tick), 1), act_time)

HeapIdle ==
    /\ mem = os_mem_init.mem
    /\ wild = FALSE
    /\ live = {}
    /\ last = Call("init", 0, 0, NULL, NULL)
    /\ fills = 0
    /\ calls = 0
    /\ MemAtReset

InitTick ==
    /\ HeapIdle
    /\ TimerAtReset
    /\ sys_time \in StartTicks
    /\ tick_irq_flag = 0
    /\ tk \in {TickFrame(hoist) : hoist \in BOOLEAN}

\* the interrupt
TickInc(tick_period) ==
    /\ tk.incs < MaxIncs
    /\ tick_irq_flag' = 0
    /\ sys_time' = Add32(sys_time, tick_period)
    /\ tk' = [tk EXCEPT !.incs = @ + 1]
    /\ UNCHANGED <<heapVars, timerVars>>

\* the caller invokes os_tick_elaps(prev_tick), which calls os_tick_get
TickElaps(prev_tick) ==
    /\ tk.pc = "idle"
    /\ tk' = [tk EXCEPT !.pc = IF tk.hoist THEN "lo" ELSE "set",
                        !.prev_tick = prev_tick, !.done = FALSE]
    /\ UNCHANGED <<heapVars, timerVars, sys_time, tick_irq_flag>>

TickSetFlag ==
    /\ tk.pc = "set"
    /\ tick_irq_flag' = 1
    /\ tk' = [tk EXCEPT !.pc = IF tk.hoist THEN "test" ELSE "lo"]
    /\ UNCHANGED <<heapVars, timerVars, sys_time>>

TickReadLo ==
    /\ tk.pc = "lo"
    /\ tk' = [tk EXCEPT !.pc = "hi", !.lo = Lo16(sys_time)]
    /\ UNCHANGED <<heapVars, timerVars, sys_time, tick_irq_flag>>

TickReadHi ==
    /\ tk.pc = "hi"
    /\ tk' = [tk EXCEPT !.pc = IF tk.hoist THEN "set" ELSE "test",
                        !.result = Join16(Hi16(sys_time), tk.lo)]
    /\ UNCHANGED <<heapVars, timerVars, sys_time, tick_irq_flag>>

\* while(!tick_irq_flag): a pass the interrupt did not fall in ends the
\* loop; held notes the value the counter had throughout that pass
TickTestFlag ==
    /\ tk.pc = "test"
    /\ tk' = IF tick_irq_flag # 0
             THEN [tk EXCEPT !.pc = "ret", !.held = sys_time]
             ELSE [tk EXCEPT !.pc = "set"]
    /\ UNCHANGED <<heapVars, timerVars, sys_time, tick_irq_flag>>

\* os_tick_get has returned act_time = tk.result
TickElapsRet ==
    /\ tk.pc = "ret"
    /\ tk' = [tk EXCEPT !.pc = "idle", !.done = TRUE,
                        !.elaps = os_tick_elaps(tk.result, tk.prev_tick)]
    /\ UNCHANGED <<heapVars, timerVars, sys_time, tick_irq_flag>>

NextTick ==
    \/ \E tick_period \in TickPeriods : TickInc(tick_period)
    \/ \E prev_tick \in PrevTicks : TickElaps(prev_tick)
    \/ TickSetFlag
    \/ TickReadLo
    \/ TickReadHi
    \/ TickTestFlag
    \/ TickElapsRet

SpecTick == InitTick /\ [][NextTick]_vars

\* C16: the value os_tick_get returns is the value sys_time held during
\* the pass of the loop in which no os_tick_inc fell between setting
\* tick_irq_flag and testing it; it is never made of parts of two values.
C16_TornReadSafety == tk.pc = "ret" => tk.result = tk.held

\* C17: os_tick_elaps(prev) is (now - prev) mod 2^32, now being the tick
\* os_tick_get gave it: added to prev modulo 2^32 it gives now, also when
\* the counter has wrapped and now < prev.
C17_WrapSafeElapsed ==
    (tk.pc = "idle" /\ tk.done) => Add32(tk.prev_tick, tk.elaps) = tk.result

C17_Witness ==
    /\ tk.pc = "idle" /\ tk.done
    /\ ULt(tk.result, tk.prev_tick)
    /\ tk.elaps # 0

----------------------------------------------------------------------------
(* The timer scheduler (os_timer.c, whose text is kept in os_ll.h).        *)
(*                                                                         *)
(*   tnode        the bytes of the timer nodes, by node address (a slot)   *)
(*   talloc       the node addresses the heap has handed out               *)
(*   os_timer_ll  the timer list, head first                               *)
(*   timer_deleted, timer_created, already_running, os_timer_run           *)
(*                the statics of os_timer.c                                *)
(*   obs          the observer's notes (see NoObs)                         *)
(*                                                                         *)
(* The scheduler is single-threaded: a call of os_timer_handler, with the  *)
(* callbacks it invokes and the calls they make, is one step.  Inside it   *)
(* os_tick_get returns sys_time; the tick advances between steps and       *)
(* inside a callback that takes long ("tick").  The list functions have    *)
(* no body under src/: they follow the specification's description of a    *)
(* doubly-linked list of heap nodes, a node being named by the pointer     *)
(* the list hands out, which is also the pointer os_timer_del frees.  The  *)
(* idle-time figures of the handler feed only os_timer_get_idle and are    *)
(* left out.                                                               *)

OS_NO_TIMER_READY == -1

\* bounds of the exploration
MaxSteps == 40
MaxOps == 3
MaxTicks == 2
MaxOwn == 2

\* what the application passes in
TimerPeriods == {1, 2}
RepeatCounts == {0, 1, 2}
Callbacks ==
    {CbNull, <<>>, <<"del_self">>, <<"del_next">>, <<"del_head">>, <<"create">>,
     <<"del_self", "create">>, <<"handler">>, <<"tick">>}
TimerStartTicks == {UINT32_MAX - 1}

\* the timer a callback creates
CreatedCb == <<>>
CreatedPeriod == CHOOSE p \in TimerPeriods : \A q \in TimerPeriods : p <= q

T ==
    [node |-> tnode, alloc |-> talloc, ll |-> os_timer_ll,
     timer_deleted |-> timer_deleted, timer_created |-> timer_created,
     already_running |-> already_running, os_timer_run |-> os_timer_run,
     sys_time |-> sys_time, obs |-> obs]

\* the list, from the specification
os_ll_get_head(ll) == IF ll = <<>> THEN NULL ELSE Head(ll)

os_ll_get_next(ll, n_act) ==
    IF \E i \in 1..(Len(ll) - 1) : ll[i] = n_act
    THEN ll[(CHOOSE i \in 1..(Len(ll) - 1) : ll[i] = n_act) + 1]
    ELSE NULL

os_ll_remove(ll, node_p) == SelectSeq(ll, LAMBDA n : n # node_p)

\* the node os_mem_alloc gives the list, NULL when the heap has none left
os_ll_new_node(t) ==
    IF Slots \subseteq t.alloc THEN NULL
    ELSE CHOOSE n \in Slots \ t.alloc : \A m \in Slots \ t.alloc : n <= m

os_ll_ins_head(ll, n_new) == <<n_new>> \o ll

\* a node pointer is good while the node has not been freed since the
\* pointer was read
Valid(t, timer) == timer \in t.alloc /\ timer \notin t.obs.freed

Uaf(t) == [t EXCEPT !.obs.uaf = TRUE]

\* the caller's pointer names a timer of the list; freeing a node the heap
\* does not know as handed out is a use after free as well
os_timer_del(t, timer) ==
    IF timer \notin t.alloc THEN Uaf(t)
    ELSE [t EXCEPT !.ll = os_ll_remove(@, timer),
                   !.timer_deleted = TRUE,
                   !.alloc = @ \ {timer},
                   !.node[timer] = NoNode,
                   !.obs.freed = @ \cup {timer},
                   !.obs.olds = @ \ {timer}]

new_timer(t, timer_cb, period) ==
    [period |-> period, last_run |-> t.sys_time, cb |-> timer_cb,
     repeat_count |-> -1, paused |-> FALSE, fires |-> 0, quota |-> -1,
     kept |-> 0]

timer_created_at_tail(t, n_new, timer_cb, period) ==
    IF n_new = NULL THEN t
    ELSE [t EXCEPT !.ll = Append(@, n_new),
                   !.alloc = @ \cup {n_new},
                   !.obs.born = @ \cup {n_new},
                   !.node[n_new] = new_timer(t, timer_cb, period),
                   !.timer_created = TRUE]

timer_created_at(t, n_new, timer_cb, period) ==
    IF n_new = NULL THEN t
    ELSE [t EXCEPT !.ll = os_ll_ins_head(@, n_new),
                   !.alloc = @ \cup {n_new},
                   !.obs.born = @ \cup {n_new},
                   !.node[n_new] = new_timer(t, timer_cb, period),
                   !.timer_created = TRUE]

os_timer_create(t, timer_cb, period) ==
    timer_created_at(t, os_ll_new_node(t), timer_cb, period)

os_timer_time_remaining_early(t, timer) ==
    IF ULt(t.node[timer].period, os_tick_elaps(t.sys_time, t.node[timer].last_run) + 2)
    THEN 0
    ELSE Sub32(t.node[timer].period, os_tick_elaps(t.sys_time, t.node[timer].last_run))

os_timer_time_remaining(t, timer) ==
    IF ULe(t.node[timer].period, os_tick_elaps(t.sys_time, t.node[timer].last_run))
    THEN 0
    ELSE Sub32(t.node[timer].period, os_tick_elaps(t.sys_time, t.node[timer].last_run))

RECURSIVE os_timer_handler(_)

\* the observer notes what a nested call of the handler returned and
\* whether it left everything as it was
NoteNested(t, r) ==
    [r EXCEPT !.obs.reent = @ \cup {[ret |-> r.obs.ret,
                                     same |-> [r EXCEPT !.obs.ret = t.obs.ret] = t]}]

\* a callback deletes another timer (or its own)
cb_del(t, target) ==
    IF target = NULL \/ target \notin t.alloc THEN t
    ELSE [os_timer_del(t, target) EXCEPT !.obs.killed = @ \cup {target}]

cb_call(t, timer, c) ==
    CASE c = "del_self" -> cb_del(t, timer)
      [] c = "del_next" -> cb_del(t, os_ll_get_next(t.ll, timer))
      [] c = "del_head" -> cb_del(t, IF os_ll_get_head(t.ll) = timer THEN NULL
                                     ELSE os_ll_get_head(t.ll))
      [] c = "create" -> os_timer_create(t, CreatedCb, CreatedPeriod)
      [] c = "handler" -> NoteNested(t, os_timer_handler(t))
      [] c = "tick" -> IF t.obs.ticks < MaxTicks
                       THEN [t EXCEPT !.sys_time = Add32(@, 1), !.obs.ticks = @ + 1]
                       ELSE t
      [] OTHER -> t

RECURSIVE run_cb(_, _, _)
run_cb(t, timer, todo) ==
    IF todo = <<>> \/ t.obs.uaf THEN t
    ELSE run_cb(cb_call(t, timer, Head(todo)), timer, Tail(todo))

\* the observer notes an invocation: which timer, and the time elapsed
\* since the last_run it had before this firing
NoteFired(t, timer, was) ==
    [t EXCEPT !.obs.fired = Append(@, [timer |-> timer,
                                       cb |-> was.cb,
                                       nth |-> was.fires + 1,
                                       quota |-> was.quota,
                                       old |-> timer \in t.obs.olds,
                                       gap |-> os_tick_elaps(t.sys_time, was.last_run),
                                       period |-> was.period]),
              !.node[timer].fires = @ + 1]

exec_fire_undying(t, timer) ==
    IF t.node[timer].cb # CbNull /\ t.node[timer].repeat_count # 0
    THEN run_cb(NoteFired([t EXCEPT !.node[timer].last_run = t.sys_time],
                          timer, t.node[timer]),
                timer, t.node[timer].cb)
    ELSE [t EXCEPT !.node[timer].last_run = t.sys_time]

exec_fire_stale(t, timer) ==
    IF t.node[timer].cb # CbNull /\ t.node[timer].repeat_count # 0
    THEN run_cb(NoteFired([t EXCEPT !.node[timer].repeat_count = IF @ > 0 THEN @ - 1 ELSE @],
                          timer, t.node[timer]),
                timer, t.node[timer].cb)
    ELSE [t EXCEPT !.node[timer].repeat_count = IF @ > 0 THEN @ - 1 ELSE @]

\* os_timer_exec: the timer is due (lines 460-468)
exec_fire(t, timer) ==
    IF t.node[timer].cb # CbNull /\ t.node[timer].repeat_count # 0
    THEN run_cb(NoteFired([t EXCEPT !.node[timer].repeat_count = IF @ > 0 THEN @ - 1 ELSE @,
                                      !.node[timer].last_run = t.sys_time],
                          timer, t.node[timer]),
                timer, t.node[timer].cb)
    ELSE [t EXCEPT !.node[timer].repeat_count = IF @ > 0 THEN @ - 1 ELSE @,
                   !.node[timer].last_run = t.sys_time]

exec_expire_blind(t, timer, exec) ==
    IF t.obs.uaf THEN [t |-> t, exec |-> exec]
    ELSE IF ~Valid(t, timer) THEN [t |-> Uaf(t), exec |-> exec]
    ELSE IF t.node[timer].repeat_count = 0 THEN [t |-> os_timer_del(t, timer), exec |-> exec]
    ELSE [t |-> t, exec |-> exec]

\* os_timer_exec: the timer has run out (lines 471-476)
exec_expire(t, timer, exec) ==
    IF t.obs.uaf \/ t.timer_deleted THEN [t |-> t, exec |-> exec]
    ELSE IF ~Valid(t, timer) THEN [t |-> Uaf(t), exec |-> exec]
    ELSE IF t.node[timer].repeat_count = 0 THEN [t |-> os_timer_del(t, timer), exec |-> exec]
    ELSE [t |-> t, exec |-> exec]

os_timer_exec_deaf(t, timer) ==
    IF ~Valid(t, timer) THEN [t |-> Uaf(t), exec |-> FALSE]
    ELSE IF os_timer_time_remaining(t, timer) = 0
         THEN exec_expire(exec_fire(t, timer), timer, TRUE)
         ELSE exec_expire(t, timer, FALSE)

os_timer_exec(t, timer) ==
    IF ~Valid(t, timer) THEN [t |-> Uaf(t), exec |-> FALSE]
    ELSE IF t.node[timer].paused THEN [t |-> t, exec |-> FALSE]
    ELSE IF os_timer_time_remaining(t, timer) = 0
         THEN exec_expire(exec_fire(t, timer), timer, TRUE)
         ELSE exec_expire(t, timer, FALSE)

\* the dispatch loop of os_timer_handler (lines 257-277): timer_pass is a
\* turn of the do-while, timer_walk a turn of the while inside it for
\* _os_timer_act = act, walk_next what follows os_timer_exec, next being
\* the pointer read before it
RECURSIVE timer_pass(_, _)
RECURSIVE timer_walk(_, _, _)

walk_next(r, next, fuel) ==
    IF r.exec /\ (r.t.timer_created \/ r.t.timer_deleted)
    THEN timer_pass(r.t, fuel - 1)
    ELSE timer_walk(r.t, next, fuel - 1)

timer_walk(t, act, fuel) ==
    IF t.obs.uaf \/ t.obs.hung \/ act = NULL THEN t
    ELSE IF fuel = 0 THEN [t EXCEPT !.obs.hung = TRUE]
    ELSE IF ~Valid(t, act) THEN Uaf(t)
    ELSE walk_next(os_timer_exec(t, act), os_ll_get_next(t.ll, act), fuel)

timer_pass(t, fuel) ==
    timer_walk([t EXCEPT !.timer_deleted = FALSE, !.timer_created = FALSE,
                         !.obs.freed = {}],
               os_ll_get_head(t.ll), fuel)

\* lines 279-289
RECURSIVE till_next(_, _, _)
till_next(t, next, time_till_next) ==
    IF next = NULL THEN time_till_next
    ELSE till_next(t, os_ll_get_next(t.ll, next),
                   IF ~t.node[next].paused
                      /\ ULt(os_timer_time_remaining(t, next), time_till_next)
                   THEN os_timer_time_remaining(t, next)
                   ELSE time_till_next)

handler_return_last(t) ==
    IF t.obs.uaf \/ t.obs.hung THEN t
    ELSE [t EXCEPT !.already_running = FALSE,
                   !.obs.ret = IF t.ll = <<>> THEN OS_NO_TIMER_READY
                               ELSE os_timer_time_remaining(t, t.ll[Len(t.ll)])]

handler_return(t) ==
    IF t.obs.uaf \/ t.obs.hung THEN t
    ELSE [t EXCEPT !.already_running = FALSE,
                   !.obs.ret = till_next(t, os_ll_get_head(t.ll), OS_NO_TIMER_READY)]

os_timer_handler_stuck(t) ==
    IF t.already_running THEN [t EXCEPT !.obs.ret = 1]
    ELSE IF ~t.os_timer_run THEN [t EXCEPT !.already_running = TRUE, !.obs.ret = 1]
    ELSE handler_return(timer_pass([t EXCEPT !.already_running = TRUE], MaxSteps))

os_timer_handler(t) ==
    IF t.already_running THEN [t EXCEPT !.obs.ret = 1]
    ELSE IF ~t.os_timer_run THEN [t EXCEPT !.already_running = FALSE, !.obs.ret = 1]
    ELSE handler_return(timer_pass([t EXCEPT !.already_running = TRUE], MaxSteps))

\* a timer the handler would fire: not paused, its period elapsed, with a
\* callback and a repeat count that has not run out
Due(t, timer) ==
    /\ ~t.node[timer].paused
    /\ os_timer_time_remaining(t, timer) = 0
    /\ t.node[timer].cb # CbNull
    /\ t.node[timer].repeat_count # 0

\* the observer's notes at the start of a top-level call
HandlerStart(t) ==
    [t EXCEPT !.obs.fired = <<>>, !.obs.reent = {}, !.obs.freed = {},
              !.obs.killed = {}, !.obs.born = {},
              !.obs.olds = t.alloc,
              !.obs.due0 = SelectSeq(t.ll, LAMBDA n : t.os_timer_run /\ Due(t, n)),
              !.obs.paused0 = {n \in t.alloc : t.node[n].paused},
              !.obs.fresh = t.os_timer_run /\ ~t.already_running]

Commit(r) ==
    /\ tnode' = r.node
    /\ talloc' = r.alloc
    /\ os_timer_ll' = r.ll
    /\ timer_deleted' = r.timer_deleted
    /\ timer_created' = r.timer_created
    /\ already_running' = r.already_running
    /\ os_timer_run' = r.os_timer_run
    /\ sys_time' = r.sys_time
    /\ obs' = r.obs
    /\ UNCHANGED <<heapVars, tick_irq_flag, tk>>

\* a call the application makes between handler calls
AppCall(r) ==
    /\ ~obs.uaf /\ ~obs.hung
    /\ obs.ops < MaxOps
    /\ Commit([r EXCEPT !.obs.ops = @ + 1, !.obs.fresh = FALSE])

\* _os_timer_core_init has run
InitTimer ==
    /\ HeapIdle
    /\ sys_time \in TimerStartTicks
    /\ tick_irq_flag = 0
    /\ tk = TickFrame(FALSE)
    /\ tnode = [i \in Slots |-> NoNode]
    /\ talloc = {}
    /\ os_timer_ll = <<>>
    /\ timer_deleted = FALSE
    /\ timer_created = FALSE
    /\ already_running = FALSE
    /\ os_timer_run = TRUE
    /\ obs = NoObs

\* the application holds at most MaxOwn timers of its own making
TimerCreate(timer_cb, period) ==
    /\ Cardinality(talloc) < MaxOwn
    /\ AppCall(os_timer_create(T, timer_cb, period))

TimerDel(timer) == AppCall(os_timer_del(T, timer))

TimerPause(timer) ==
    AppCall([T EXCEPT !.node[timer].paused = TRUE,
                      !.node[timer].kept = T.node[timer].last_run])

TimerResume(timer) ==
    AppCall([T EXCEPT !.node[timer].paused = FALSE, !.node[timer].kept = 0])

TimerSetRepeatCount(timer, repeat_count) ==
    AppCall([T EXCEPT !.node[timer].repeat_count = repeat_count,
                      !.node[timer].quota = repeat_count,
                      !.node[timer].fires = 0])

TimerEnable(en) == AppCall([T EXCEPT !.os_timer_run = en])

TimerTick ==
    /\ ~obs.uaf /\ ~obs.hung
    /\ obs.ticks < MaxTicks
    /\ Commit([T EXCEPT !.sys_time = Add32(@, 1), !.obs.ticks = @ + 1,
                      !.obs.fresh = FALSE, !.obs.readied = {}])

TimerHandler ==
    /\ ~obs.uaf /\ ~obs.hung
    /\ Commit([os_timer_handler(HandlerStart(T)) EXCEPT !.obs.readied = {}])

NextTimer ==
    \/ \E timer_cb \in Callbacks, period \in TimerPeriods : TimerCreate(timer_cb, period)
    \/ \E timer \in talloc : TimerDel(timer)
    \/ \E timer \in talloc : TimerPause(timer)
    \/ \E timer \in talloc : TimerResume(timer)
    \/ \E timer \in talloc, repeat_count \in RepeatCounts : TimerSetRepeatCount(timer, repeat_count)
    \/ \E en \in BOOLEAN : TimerEnable(en)
    \/ TimerTick
    \/ TimerHandler

SpecTimer == InitTimer /\ [][NextTimer]_vars

ListNodes == {os_timer_ll[i] : i \in 1..Len(os_timer_ll)}

C14_RepeatCountBound ==
    /\ \A i \in 1..Len(obs.fired) :
          obs.fired[i].quota > 0 => obs.fired[i].nth <= obs.fired[i].quota
    /\ \A n \in ListNodes :
          tnode[n].quota > 0 =>
              /\ tnode[n].fires < tnode[n].quota
              /\ tnode[n].repeat_count > 0
              /\ tnode[n].repeat_count <= tnode[n].quota - tnode[n].fires

\* period 1 and k = 2, the tick advanced 1 ms at a time with a handler call
\* after each: two firings, then os_timer_get_next(NULL) is NULL
C14_Witness ==
    /\ \E i \in 1..Len(obs.fired) :
          /\ obs.fired[i].quota = 2
          /\ obs.fired[i].nth = 2
          /\ obs.fired[i].cb = <<>>
    /\ os_ll_get_head(os_timer_ll) = NULL
    /\ talloc = {}

\* C15: a call of os_timer_handler made from inside a callback returns 1,
\* invokes no callback and changes nothing, and the guard is cleared on
\* every return path of the outer call: it is never set between calls.
C15_ReentrancyGuard ==
    /\ \A e \in obs.reent : e.ret = 1 /\ e.same
    /\ ~already_running

C15_Witness ==
    /\ obs.reent # {}
    /\ \E i \in 1..Len(obs.fired) : obs.fired[i].cb = <<"handler">>
    /\ ~already_running

\* the place in the log of the first invocation of a timer that was in the
\* list when the call began, 0 if it was not invoked
RECURSIVE FirstFired(_, _, _)
FirstFired(fired, timer, i) ==
    IF i > Len(fired) THEN 0
    ELSE IF fired[i].timer = timer /\ fired[i].old THEN i
    ELSE FirstFired(fired, timer, i + 1)

\* C18: os_timer_create puts the new timer at the head of the list; and in
\* one os_timer_handler call, of two timers due and not paused when the
\* call began that both run, the one nearer the head is invoked first,
\* restarts of the walk included.
C18_DispatchOrder ==
    [][/\ (obs'.ops = obs.ops + 1 /\ Len(os_timer_ll') = Len(os_timer_ll) + 1)
            => /\ Tail(os_timer_ll') = os_timer_ll
               /\ Head(os_timer_ll') \notin talloc
       /\ \A i, j \in 1..Len(obs'.due0) :
             (/\ i < j
              /\ FirstFired(obs'.fired, obs'.due0[i], 1) # 0
              /\ FirstFired(obs'.fired, obs'.due0[j], 1) # 0)
                 => FirstFired(obs'.fired, obs'.due0[i], 1)
                       < FirstFired(obs'.fired, obs'.due0[j], 1)]_vars

\* two timers due at once, a restart of the walk between their callbacks
C18_Witness ==
    /\ Len(obs.due0) = 2
    /\ FirstFired(obs.fired, obs.due0[1], 1) # 0
    /\ FirstFired(obs.fired, obs.due0[2], 1) # 0
    /\ obs.born # {}
    /\ obs.fired[1].cb = <<"create">>

\* C19: a timer that is paused is not invoked by os_timer_handler;
\* os_timer_pause and os_timer_resume change the paused flag and nothing
\* else; so a paused timer keeps the last_run it had, and once resumed it
\* is due when the time elapsed since that last_run is its period or more.
C19_Pause ==
    [][/\ \A i \in 1..Len(obs'.fired) :
             ~(obs'.fired[i].old /\ obs'.fired[i].timer \in obs'.paused0)
       /\ \A n \in ListNodes' : tnode'[n].paused => tnode'[n].last_run = tnode'[n].kept
       /\ \A n \in talloc :
             (obs'.ops = obs.ops + 1 /\ n \in talloc' /\ tnode'[n].paused # tnode[n].paused)
                => /\ tnode' = [tnode EXCEPT ![n].paused = tnode'[n].paused,
                                             ![n].kept = tnode'[n].kept]
                   /\ UNCHANGED <<talloc, os_timer_ll, timer_deleted, timer_created,
                                  already_running, os_timer_run, sys_time>>
                   /\ (~tnode'[n].paused /\ os_timer_run /\ tnode[n].cb # CbNull
                       /\ tnode[n].repeat_count # 0)
                         => (Due(T, n)' <=> ULe(tnode[n].period,
                                                os_tick_elaps(sys_time, tnode[n].kept)))]_vars

\* a handler call has passed over a paused timer whose period had elapsed
C19_Witness ==
    /\ os_timer_run
    /\ \E n \in obs.paused0 \cap ListNodes :
          /\ n \in obs.olds
          /\ tnode[n].paused
          /\ tnode[n].cb # CbNull
          /\ tnode[n].repeat_count # 0
          /\ os_timer_time_remaining(T, n) = 0
          /\ obs.ret # 1

\* C20: whenever a callback is invoked, the tick time elapsed (modulo 2^32)
\* since the last_run the timer had from its previous firing, or from its
\* creation, is at least its period.
C20_MinimumSpacing ==
    \A i \in 1..Len(obs.fired) : ULe(obs.fired[i].period, obs.fired[i].gap)

\* a second firing exactly one period after the first, across the wrap
C20_Witness ==
    \E i \in 1..Len(obs.fired) :
       /\ obs.fired[i].nth = 2
       /\ obs.fired[i].gap = obs.fired[i].period
       /\ sys_time = 0

\* the delays os_timer_time_remaining gives for the timers of the list
\* that are not paused
Delays(t) ==
    {os_timer_time_remaining(t, t.ll[i]) :
        i \in {j \in 1..Len(t.ll) : ~t.node[t.ll[j]].paused}}

NextWake(t) ==
    LET D == Delays(t)
    IN  IF D = {} THEN OS_NO_TIMER_READY
        ELSE CHOOSE d \in D : \A e \in D : ULe(d, e)

\* C21: a call of os_timer_handler that is not nested and finds the
\* scheduler enabled returns the least os_timer_time_remaining of the
\* timers that are in the list and not paused once dispatch is over, and
\* OS_NO_TIMER_READY when there is none.
C21_NextWake ==
    obs.fresh => obs.ret = NextWake(T)

\* the call fired a timer of period 2 and passed over a paused one that is
\* overdue and stands behind it in the list: 2 is returned
C21_Witness ==
    /\ obs.fresh
    /\ obs.ret = 2
    /\ NextWake(T) = 2
    /\ Len(obs.fired) = 1
    /\ \E i \in 1..Len(os_timer_ll) :
          /\ tnode[os_timer_ll[i]].paused
          /\ os_timer_time_remaining(T, os_timer_ll[i]) = 0
          /\ \E j \in 1..(i - 1) : ~tnode[os_timer_ll[j]].paused

----------------------------------------------------------------------------
(* os_timer_ready, on a timer of any period at any tick.  The timer has    *)
(* been created at the current tick; its period, repeat count and paused   *)
(* flag are what os_timer_set_period, os_timer_set_repeat_count and        *)
(* os_timer_pause have made them.                                          *)

ReadyPeriods == {0, 1, MaxInt, MinInt, UINT32_MAX - 1, UINT32_MAX}
ReadyTicks == {0, 1, UINT32_MAX}
ReadyCounts == {-1, 0, 1}

\* a timer of period 0 fires in every os_timer_handler call: the number of
\* firings explored
MaxFires == 2

\* lines 392-395
os_timer_ready(t, timer) ==
    [t EXCEPT !.node[timer].last_run =
                  Sub32(Sub32(t.sys_time, t.node[timer].period), 1)]

InitReady ==
    /\ HeapIdle
    /\ sys_time \in ReadyTicks
    /\ tick_irq_flag = 0
    /\ tk = TickFrame(FALSE)
    /\ \E period \in ReadyPeriods, repeat_count \in ReadyCounts, paused \in BOOLEAN :
          tnode = [i \in Slots |->
                     IF i = 1
                     THEN [new_timer([sys_time |-> sys_time], <<>>, period) EXCEPT
                              !.repeat_count = repeat_count,
                              !.quota = repeat_count,
                              !.paused = paused,
                              !.kept = IF paused THEN sys_time ELSE 0]
                     ELSE NoNode]
    /\ talloc = {1}
    /\ os_timer_ll = <<1>>
    /\ timer_deleted = FALSE
    /\ timer_created = FALSE
    /\ already_running = FALSE
    /\ os_timer_run = TRUE
    /\ obs = NoObs

TimerReady(timer) ==
    AppCall([os_timer_ready(T, timer) EXCEPT !.obs.readied = @ \cup {timer}])

ReadyHandler ==
    /\ \A n \in talloc : tnode[n].fires < MaxFires
    /\ TimerHandler

NextReady ==
    \/ \E timer \in talloc : TimerReady(timer)
    \/ TimerTick
    \/ ReadyHandler

SpecReady == InitReady /\ [][NextReady]_vars

----------------------------------------------------------------------------
(* The timers running out: the application has created MaxTimers timers of *)
(* period 1, some of them one tick ago and the others now, and has given   *)
(* each a callback and, with os_timer_set_repeat_count, a count or none.   *)
(* From there on the tick advances and os_timer_handler is called.         *)

ExpiryCounts == {-1, 0, 1}
ExpiryCallbacks == {<<>>, <<"del_next">>}

\* timer i was created before the tick if i <= early; the list has the
\* latest timer at its head
InitExpiry ==
    /\ HeapIdle
    /\ sys_time \in TimerStartTicks
    /\ tick_irq_flag = 0
    /\ tk = TickFrame(FALSE)
    /\ \E early \in 0..MaxTimers,
          count \in [Slots -> ExpiryCounts],
          cb \in [Slots -> ExpiryCallbacks] :
          tnode = [i \in Slots |->
                     [new_timer([sys_time |-> IF i <= early THEN Sub32(sys_time, 1)
                                              ELSE sys_time],
                                cb[i], 1) EXCEPT
                         !.repeat_count = count[i],
                         !.quota = count[i]]]
    /\ talloc = Slots
    /\ os_timer_ll = [i \in 1..MaxTimers |-> MaxTimers + 1 - i]
    /\ timer_deleted = FALSE
    /\ timer_created = TRUE
    /\ already_running = FALSE
    /\ os_timer_run = TRUE
    /\ obs = NoObs

NextExpiry ==
    \/ TimerTick
    \/ TimerHandler

SpecExpiry == InitExpiry /\ [][NextExpiry]_vars

\* C22: for every period and every tick, right after os_timer_ready(t) on
\* a timer that is not paused and whose repeat count is not 0,
\* os_timer_time_remaining(t) is 0; and an os_timer_handler call that
\* follows with no tick in between invokes the callback of t.
C22_ReadyIsDue ==
    [][\A n \in talloc :
          /\ (TimerReady(n) /\ ~tnode[n].paused /\ tnode[n].repeat_count # 0)
                => os_timer_time_remaining(T, n)' = 0
          /\ (/\ TimerHandler
              /\ n \in obs.readied
              /\ os_timer_run /\ ~tnode[n].paused
              /\ tnode[n].repeat_count # 0 /\ tnode[n].cb # CbNull)
                => \E i \in 1..Len(obs'.fired) : obs'.fired[i].timer = n]_vars

\* the same for the periods below 2^32 - 1
C22_ReadyBelowMax ==
    [][\A n \in talloc :
          tnode[n].period # UINT32_MAX =>
          /\ (TimerReady(n) /\ ~tnode[n].paused /\ tnode[n].repeat_count # 0)
                => os_timer_time_remaining(T, n)' = 0
          /\ (/\ TimerHandler
              /\ n \in obs.readied
              /\ os_timer_run /\ ~tnode[n].paused
              /\ tnode[n].repeat_count # 0 /\ tnode[n].cb # CbNull)
                => \E i \in 1..Len(obs'.fired) : obs'.fired[i].timer = n]_vars

----------------------------------------------------------------------------
(* The properties of the os_mem.c functions (SpecMem).                     *)

\* C23: os_mem_alloc(0) returns the address of zero_mem, which is not
\* NULL, every time, and changes neither the heap nor the counters;
\* os_mem_free of that address or of NULL changes nothing; no call of
\* os_mem.c changes zero_mem, and with zero_mem intact os_mem_test returns
\* OS_RES_OK.
C23_ZeroSize ==
    [][/\ (last'.op = "os_mem_alloc" /\ last'.size = 0)
             => /\ last'.ret = ZeroMemAddr
                /\ ZeroMemAddr # NULL
                /\ UNCHANGED <<mem, wild, cur_used, max_used, zero_mem>>
       /\ (last'.op = "os_mem_free" /\ last'.ptr \in {NULL, ZeroMemAddr})
             => UNCHANGED <<mem, wild, cur_used, max_used, zero_mem>>
       /\ last'.op # "scribble" => zero_mem' = zero_mem
       /\ (last'.op = "os_mem_test" /\ zero_mem = ZERO_MEM_SENTINEL /\ ~wild')
             => last'.ret = OS_RES_OK]_vars

\* the address of zero_mem has been freed while a buffer was counted
C23_Witness ==
    /\ ~wild
    /\ last.op = "os_mem_free"
    /\ last.ptr = ZeroMemAddr
    /\ cur_used # 0
    /\ zero_mem = ZERO_MEM_SENTINEL

\* C24: an os_mem_alloc(n), n > 0, that returns a buffer adds n to
\* cur_used and makes max_used the larger of max_used and the new
\* cur_used; one that returns NULL leaves both; max_used is never below
\* cur_used and never decreases.
C24_AllocAccounting ==
    [][/\ (last'.op = "os_mem_alloc" /\ last'.size # 0 /\ ~wild')
             => IF last'.ret # NULL
                THEN /\ cur_used' = Add32(cur_used, last'.size)
                     /\ max_used' = UMax(max_used, cur_used')
                ELSE UNCHANGED <<cur_used, max_used>>
       /\ ULe(cur_used, max_used)
       /\ ULe(cur_used', max_used')
       /\ ULe(max_used, max_used')]_vars

\* a request was served while the peak lay above the current use
C24_Witness ==
    /\ ~wild
    /\ last.op = "os_mem_alloc"
    /\ last.ret # NULL
    /\ last.size # 0
    /\ cur_used # 0
    /\ ULt(cur_used, max_used)

\* C25: os_mem_free(p) of a buffer the caller holds lowers cur_used by the
\* smaller of cur_used and the size word of p's block, flag bits
\* included, as it stood before the call.
C25_FreeSaturates ==
    [][(last'.op = "os_mem_free" /\ last'.ptr \in LivePtrs \ {ZeroMemAddr} /\ ~wild')
          => cur_used' = Sub32(cur_used,
                               UMin(cur_used, Rd(M, SizeAddr(block_from_ptr(last'.ptr)))))]_vars

\* a buffer was freed whose size word was smaller than cur_used: the
\* difference is left
C25_Witness ==
    /\ ~wild
    /\ last.op = "os_mem_free"
    /\ last.ptr \notin {NULL, ZeroMemAddr}
    /\ last.cur # 0
    /\ cur_used # 0
    /\ ULt(cur_used, max_used)

\* C26 as stated: no os_mem_realloc call changes cur_used or max_used.
C26_NoAccounting ==
    [][last'.op = "os_mem_realloc" => UNCHANGED <<cur_used, max_used>>]_vars

\* C26, amended: os_mem_realloc(p, n) with n > 0 and p not the address of
\* zero_mem leaves cur_used and max_used alone; os_mem_realloc(p, 0)
\* changes them as os_mem_free(p) does; os_mem_realloc(&zero_mem, n),
\* n > 0, changes them as os_mem_alloc(n) does.
C26_ReallocAccounting ==
    [][(last'.op = "os_mem_realloc" /\ ~wild') =>
          IF last'.size = 0
          THEN /\ max_used' = max_used
               /\ cur_used' =
                     IF last'.ptr \in {NULL, ZeroMemAddr} THEN cur_used
                     ELSE Sub32(cur_used,
                                UMin(cur_used, Rd(M, SizeAddr(block_from_ptr(last'.ptr)))))
          ELSE IF last'.ptr = ZeroMemAddr /\ last'.ret # NULL
               THEN /\ cur_used' = Add32(cur_used, last'.size)
                    /\ max_used' = UMax(max_used, cur_used')
               ELSE UNCHANGED <<cur_used, max_used>>]_vars

\* a buffer that is counted has been reallocated to a size that is not 0
C26_Witness ==
    /\ ~wild
    /\ last.op = "os_mem_realloc"
    /\ last.size # 0
    /\ last.ptr \notin {NULL, ZeroMemAddr}
    /\ last.ret # NULL
    /\ cur_used # 0

\* the allocator's invariants, as os_tlsf_check and os_tlsf_check_pool are
\* to test them
Consistent(s) ==
    /\ ListsPlaced(s)
    /\ BitmapsConsistent(s)
    /\ FlagsConsistent(s)
    /\ NoAdjacentFree(s)

\* C27: os_mem_test returns OS_RES_OK when the heap satisfies the
\* allocator's invariants and zero_mem holds the sentinel, and OS_RES_INV
\* otherwise.
C27_TestReports ==
    (last.op = "os_mem_test" /\ ~wild)
       => (last.ret = OS_RES_OK <=> (Consistent(M) /\ zero_mem = ZERO_MEM_SENTINEL))

----------------------------------------------------------------------------
(* The properties of the temporary buffers (SpecBuf).                      *)

\* the unused slots of b whose stored capacity serves a request of size
BufFit(b, size) == {i \in BufSlots : b[i].used = 0 /\ ULe(size, b[i].size)}

\* C28: os_mem_buf_get(size) with size > 0, when some unused slot has a
\* stored capacity of size or more, returns the pointer of an unused slot of
\* capacity size if there is one, otherwise the pointer of an unused slot of
\* the smallest capacity that is size or more; it marks that slot used,
\* changes no other slot and does not call the heap.
C28_Selection ==
    [][(last'.op = "os_mem_buf_get" /\ last'.size # 0
          /\ BufFit(os_mem_buf, last'.size) # {})
       => \E i \in BufFit(os_mem_buf, last'.size) :
             /\ \A j \in BufFit(os_mem_buf, last'.size) :
                   /\ os_mem_buf[j].size = last'.size
                         => os_mem_buf[i].size = last'.size
                   /\ os_mem_buf[i].size <= os_mem_buf[j].size
             /\ last'.ret = os_mem_buf[i].p
             /\ os_mem_buf' = [os_mem_buf EXCEPT ![i].used = 1]
             /\ ~last'.heap]_vars

\* a request of 4 was served out of the unused 8-byte slot 1, the unused
\* 12-byte slot 0 before it left alone
C28_Witness ==
    /\ last.op = "os_mem_buf_get"
    /\ last.size = 4
    /\ ~last.heap
    /\ last.ret = os_mem_buf[1].p
    /\ os_mem_buf[1].size = 8 /\ os_mem_buf[1].used = 1
    /\ os_mem_buf[0].size = 12 /\ os_mem_buf[0].used = 0
    /\ os_mem_buf[0].p # NULL

----------------------------------------------------------------------------
(* The memalign scenario (SpecAlign).                                      *)

\* the heap is as os_mem_init left it and the step is os_tlsf_memalign(256, 100)
FreshMemalign ==
    /\ mem = os_mem_init.mem
    /\ ~wild
    /\ last'.op = "memalign"
    /\ last'.align = 256
    /\ last'.size = 100

\* the pool of s is one free block followed by the sentinel
OneFreeBlock(s) ==
    /\ ~s.wild
    /\ Len(PhysBlocks(s)) = 2
    /\ block_is_free(s, PhysBlocks(s)[1])

----------------------------------------------------------------------------
(* The report of os_mem_monitor and lv_mem_deinit (SpecMem).               *)

\* C31: on the heap as os_mem_init leaves it os_mem_monitor reports
\* total_size = 1024, used_cnt = 0, free_cnt = 1, free_size =
\* free_biggest_size = 1024 less the control structure and the pool
\* overhead, aligned down to 4, and frag_pct = 0.
C31_FreshReport ==
    (last.op = "os_mem_monitor" /\ mem = os_mem_init.mem /\ ~wild)
    => /\ last.mon.total_size = 1024
       /\ last.mon.used_cnt = 0
       /\ last.mon.free_cnt = 1
       /\ last.mon.free_size =
             align_down(OS_MEM_SIZE - SizeofControl - os_tlsf_pool_overhead, 4)
       /\ last.mon.free_biggest_size = last.mon.free_size
       /\ last.mon.frag_pct = 0

C31_Witness ==
    /\ last.op = "os_mem_monitor"
    /\ calls = 1
    /\ mem = os_mem_init.mem
    /\ last.mon.free_size = 468
    /\ last.mon.used_pct = 55
    /\ last.mon.max_used = 0

\* C32: after lv_mem_deinit, whatever was allocated before, the pool is one
\* free block and no used block, cur_used is 0, and no slot of os_mem_buf
\* holds a pointer or is marked used.
C32_DeinitFresh ==
    last.op = "lv_mem_deinit"
    => /\ OneFreeBlock(M)
       /\ cur_used = 0
       /\ \A i \in BufSlots : os_mem_buf[i].p = NULL /\ os_mem_buf[i].used = 0

----------------------------------------------------------------------------
(* Further properties of the allocator (Spec).                             *)

\* the machine after the step
MNext == [mem |-> mem', wild |-> wild']

\* the step is an os_tlsf_malloc of a valid size that returns a block which
\* was free
MallocServed ==
    /\ ~wild
    /\ last'.op = "malloc"
    /\ last'.size # 0
    /\ ULt(last'.size, block_size_max)
    /\ last'.ret # NULL
    /\ InMem(SizeAddr(block_from_ptr(last'.ret)))
    /\ block_is_free(M, block_from_ptr(last'.ret))

\* block b of size S trimmed to n: a leading block of size n and a trailing
\* block of size S - n - block_header_overhead, free, linked to its physical
\* successor and filed in the list of its size class; or no split
SplitPost(s, t, b, n) ==
    LET S == block_size(s, b)
        rem == SplitRemaining(b, n)
    IN  /\ ~t.wild
        /\ IF ULe(Add32(SizeofBlockHeader, n), S)
           THEN /\ block_size(t, b) = n
                /\ InMem(SizeAddr(rem))
                /\ block_size(t, rem) = S - n - block_header_overhead
                /\ block_is_free(t, rem)
                /\ InMem(SizeAddr(block_next(t, rem)))
                /\ block_prev(t, block_next(t, rem)) = rem
                /\ block_is_prev_free(t, block_next(t, rem))
                /\ \E i \in 1..Len(FreeList(t, mapping_insert(block_size(t, rem))[1],
                                            mapping_insert(block_size(t, rem))[2])) :
                      FreeList(t, mapping_insert(block_size(t, rem))[1],
                               mapping_insert(block_size(t, rem))[2])[i] = rem
           ELSE block_size(t, b) = S

\* C33: when the free block that os_tlsf_malloc located, of size S, is
\* trimmed to the adjusted request n and S >= sizeof(block header) + n, the
\* result is a leading block of size n and a trailing block whose size field
\* is S - n - header overhead, which is free, linked to its physical
\* successor (back-pointer and PREV_FREE) and in the free list of its size
\* class; when S < sizeof(block header) + n the block keeps size S.
C33_SplitPostcondition ==
    [][MallocServed
       => SplitPost(M, MNext, block_from_ptr(last'.ret),
                    adjust_request_size(last'.size, ALIGN_SIZE))]_vars

\* address a lies in the payload [ptr, ptr + block_size(ptr)) of a held buffer
InPayload(a, ptr) == ULe(ptr, a) /\ ULt(Sub32(a, ptr), CurSize(ptr))

\* the payload of a held buffer lies in the memory given to os_tlsf_add_pool
InPool(ptr) ==
    /\ ULe(PoolMem, ptr)
    /\ ULe(Sub32(ptr, PoolMem), PoolBytesArg)
    /\ ULe(CurSize(ptr), Sub32(PoolBytesArg, Sub32(ptr, PoolMem)))

\* C37: in every state reached by malloc / memalign / realloc / free, the
\* payloads of the buffers the caller holds are pairwise disjoint, lie
\* inside the pool and contain the size word of no block.
C37_NoOverlap ==
    Defined =>
        /\ \A a, b \in live :
              a # b => (~InPayload(a.ptr, b.ptr) /\ ~InPayload(b.ptr, a.ptr))
        /\ \A a \in live : InPool(a.ptr)
        /\ \A a \in live : \A i \in 1..Len(PhysBlocks(M)) :
              ~InPayload(SizeAddr(PhysBlocks(M)[i]), a.ptr)

----------------------------------------------------------------------------
(* The search for a free block (SpecSearch).                               *)

\* the class a request of size is searched from
SearchClass(size) == mapping_search(adjust_request_size(size, ALIGN_SIZE))

\* the non-empty free lists of s at or above the class c
ListsFrom(s, c) ==
    {x \in FlRange \X SlRange :
        /\ (x[1] = c[1] /\ x[2] >= c[2]) \/ x[1] > c[1]
        /\ Rd(s, BlkAddr(x[1], x[2])) # block_null}

\* the lowest-indexed of the lists C
LowestList(C) ==
    CHOOSE x \in C : \A y \in C : x[1] < y[1] \/ (x[1] = y[1] /\ x[2] <= y[2])

\* the step is an os_tlsf_malloc of a valid size within defined behaviour
MallocValid ==
    /\ ~wild
    /\ ~wild'
    /\ last'.op = "malloc"
    /\ last'.size # 0
    /\ ULt(last'.size, block_size_max)

----------------------------------------------------------------------------
(* Further properties of os_timer_handler (SpecTimer).                     *)

\* C35: the dispatch loop of os_timer_handler exits only after a complete
\* pass from the head to the tail of the list during which no timer was
\* created or deleted: when a top-level call that found the scheduler
\* enabled has returned, the flags of its last pass are both clear.
C35_CleanLastPass == obs.fresh => (~timer_deleted /\ ~timer_created)

\* C36: when a top-level os_timer_handler call that found the scheduler
\* enabled returns, no timer that is not paused and has repeat_count = 0 is
\* left in the list, and no callback was invoked for a timer whose
\* repeat_count was 0 when it was dispatched (its invocations since the
\* count was set do not exceed the count).
C36_ExpiredRemoved ==
    obs.fresh
    => /\ \A i \in 1..Len(os_timer_ll) :
             tnode[os_timer_ll[i]].paused \/ tnode[os_timer_ll[i]].repeat_count # 0
       /\ \A k \in 1..Len(obs.fired) :
             obs.fired[k].quota < 0 \/ obs.fired[k].nth <= obs.fired[k].quota

\* the tick did not advance during the last call: no callback invoked in it
\* advances the tick
TickStood ==
    \A i \in 1..Len(obs.fired) :
        \A k \in 1..Len(obs.fired[i].cb) : obs.fired[i].cb[k] # "tick"

\* C39: if the tick does not advance during an os_timer_handler call and
\* every timer has a period > 0, each timer's callback is invoked at most
\* once in that call and the dispatch loop comes to its end, whatever the
\* callbacks create and delete.
C39_Termination ==
    (obs.fresh /\ TickStood) =>
        /\ ~obs.hung
        /\ \A i, j \in 1..Len(obs.fired) :
              i < j => obs.fired[i].timer # obs.fired[j].timer

\* a callback deleted its own timer and created another, the pass was
\* started again and a second timer was invoked in the same call
C39_Witness ==
    /\ obs.fresh /\ TickStood /\ ~obs.hung
    /\ \A n \in ListNodes : tnode[n].period > 0
    /\ \E i, j \in 1..Len(obs.fired) :
          /\ i < j
          /\ obs.fired[i].cb = <<"del_self", "create">>
          /\ obs.fired[i].timer \in obs.killed
          /\ obs.born # {}

----------------------------------------------------------------------------
(* The indices of the free lists (SpecPool)                                *)

\* the free blocks os_tlsf_walk_pool meets
FreeBlocks(s) ==
    {PhysBlocks(s)[i] : i \in {k \in 1..Len(PhysBlocks(s)) : block_is_free(s, PhysBlocks(s)[k])}}

\* C38: for every (mem, bytes) that os_tlsf_add_pool accepts, the free list
\* the pool's block is filed in has 0 <= fl < FL_INDEX_COUNT and
\* 0 <= sl < SL_INDEX_COUNT, and so has every block filed by the calls
\* that follow: every free block's size is below block_size_max.
C38_IndicesInBounds ==
    /\ (last.op = "os_tlsf_add_pool" /\ last.ret # NULL)
          => /\ ULt(pool_bytes_of(last.size), block_size_max)
             /\ IdxOK(mapping_insert(pool_bytes_of(last.size))[1],
                      mapping_insert(pool_bytes_of(last.size))[2])
    /\ Defined
          => \A b \in FreeBlocks(M) :
                /\ ULt(block_size(M, b), block_size_max)
                /\ IdxOK(mapping_insert(block_size(M, b))[1],
                         mapping_insert(block_size(M, b))[2])

----------------------------------------------------------------------------
(* The borrowing of the temporary buffers (SpecBorrow)                     *)

UsedSlots == {i \in BufSlots : os_mem_buf[i].used = 1}

\* what the slots say of the borrowed buffers
BorrowedInv ==
    /\ Cardinality(live) <= OS_MEM_BUF_MAX_NUM
    /\ \A i, j \in BufSlots :
          (i # j /\ os_mem_buf[i].p # NULL) => os_mem_buf[i].p # os_mem_buf[j].p
    /\ \A i \in UsedSlots :
          /\ os_mem_buf[i].p # NULL
          /\ \E a \in live :
                a.ptr = os_mem_buf[i].p /\ ULe(a.req, os_mem_buf[i].size)
    /\ \A a \in live : \E i \in UsedSlots : os_mem_buf[i].p = a.ptr

\* os_mem_buf_get hands out a buffer the caller does not hold
BorrowedFresh ==
    (last'.op = "os_mem_buf_get" /\ calls' = calls + 1 /\ last'.ret # NULL)
        => last'.ret \notin LivePtrs

====
